---- MODULE Spec2Model ----
(***************************************************************************)
(* A model of the CWC token codec: the metadata packer, the URL-safe       *)
(* base64 codec, the compression layer, the AES-GCM engine, the token      *)
(* pipeline (encode / decode / validateToken / extractMetadata), the key   *)
(* rotation helpers and the streaming chunk protocol.                      *)
(*                                                                         *)
(* Conventions.                                                            *)
(*  - A byte string (Uint8Array) is a sequence of integers 0..255; a text  *)
(*    (JavaScript string) is a sequence of character codes, ASCII only.    *)
(*  - A token is a sequence of base64url digits 0..63 (the index of the    *)
(*    character in the alphabet A-Z a-z 0-9 - _).                          *)
(*  - A function that can throw returns [ok, err, val]: err is the message *)
(*    of the Error thrown (templated tails are left out).                  *)
(*  - Unsigned 32-bit quantities are kept exact as two 16-bit limbs        *)
(*    [hi, lo] (value hi * 65536 + lo), because a timestamp in             *)
(*    milliseconds does not fit the integers of the model checker.         *)
(*  - The platform services are modelled by their contracts: AES-GCM is    *)
(*    an ideal authenticated cipher (decryption succeeds exactly on a      *)
(*    (key, iv, ciphertext) that an encryption produced), PBKDF2 is an     *)
(*    injective symbolic key derivation, the cryptographic random source   *)
(*    returns values that were never returned before, and the three        *)
(*    compression libraries are stand-in codecs with a header and a        *)
(*    checksum.                                                            *)
(***************************************************************************)
EXTENDS Integers, Sequences, FiniteSets, TLC

(***************************************************************************)
(* Program constants                                                       *)
(***************************************************************************)
KEY_LENGTH == 32
IV_LENGTH == 12
TAG_LENGTH == 16
SALT_LENGTH == 16
CURRENT_VERSION == 1
SUPPORTED_VERSIONS == {1}
FLAG_HAS_TIMESTAMP == 1
FLAG_HAS_TTL == 2

(***************************************************************************)
(* Byte strings (src/utils/buffers.ts)                                     *)
(***************************************************************************)
Min(a, b) == IF a < b THEN a ELSE b

RECURSIVE Pow2(_)
Pow2(n) == IF n = 0 THEN 1 ELSE 2 * Pow2(n - 1)

\* A sequence given as a function, written out as a tuple.
AsTuple(f) == f \o << >>

\* bytes.slice(start, end) with 0-based start (inclusive) and end (exclusive),
\* both clamped to the length as Uint8Array.prototype.slice does.
sliceBytes(bytes, start, end) ==
    LET s == Min(start, Len(bytes))
        e == Min(end, Len(bytes))
    IN  IF e <= s THEN << >> ELSE SubSeq(bytes, s + 1, e)

\* bytes.slice(start): to the end of the array.
sliceFrom(bytes, start) == sliceBytes(bytes, start, Len(bytes))

concatBytes(a, b) == a \o b

\* TextEncoder on ASCII text: one byte per character.
stringToBytes(str) == str

\* TextDecoder (non-fatal): never throws; a byte outside ASCII decodes to
\* U+FFFD (65533).
bytesToString(bytes) ==
    AsTuple([i \in 1..Len(bytes) |-> IF bytes[i] < 128 THEN bytes[i] ELSE 65533])

RECURSIVE SumSeq(_)
SumSeq(s) ==
    IF Len(s) = 0 THEN 0
    ELSE IF Len(s) = 1 THEN s[1] % 65536
    ELSE LET h == Len(s) \div 2
         IN  (SumSeq(SubSeq(s, 1, h)) + SumSeq(SubSeq(s, h + 1, Len(s)))) % 65536

(***************************************************************************)
(* URL-safe base64 without padding (src/utils/base64.ts)                   *)
(***************************************************************************)
\* Digit k (1-based) of the base64 text of `data`: bits 6(k-1) .. 6k-1 of the
\* bit string, zero-filled past the end.
Sextet(data, k) ==
    LET bit == 6 * (k - 1)
        j   == (bit \div 8) + 1
        o   == bit % 8
        b1  == data[j]
        b2  == IF j + 1 <= Len(data) THEN data[j + 1] ELSE 0
    IN  ((b1 * 256 + b2) \div Pow2(10 - o)) % 64

encodeBase64Url(data) ==
    AsTuple([k \in 1..((8 * Len(data) + 5) \div 6) |-> Sextet(data, k)])

\* Byte m (1-based) of the bytes a base64 text decodes to.
Octet(str, m) ==
    LET bit == 8 * (m - 1)
        k   == (bit \div 6) + 1
        o   == bit % 6
        s1  == str[k]
        s2  == IF k + 1 <= Len(str) THEN str[k + 1] ELSE 0
        s3  == IF k + 2 <= Len(str) THEN str[k + 2] ELSE 0
    IN  ((s1 * 4096 + s2 * 64 + s3) \div Pow2(10 - o)) % 256

\* The padding is re-added and the text decoded; the bits left over after the
\* last whole byte are dropped.
decodeBase64Url(str) ==
    IF str = << >> THEN << >>
    ELSE AsTuple([m \in 1..((6 * Len(str)) \div 8) |-> Octet(str, m)])

(***************************************************************************)
(* Numbers that exceed the checker's integers                              *)
(***************************************************************************)
\* An unsigned 32-bit value as two 16-bit limbs.
U32(n) == [hi |-> n \div 65536, lo |-> n % 65536]

U32Zero == [hi |-> 0, lo |-> 0]

\* A time in milliseconds: sec * 1000 + ms.
Millis(n) == [sec |-> U32(n \div 1000), ms |-> n % 1000]

Undefined == [undef |-> TRUE]

\* JavaScript truthiness of a number that may be undefined.
Truthy(x) ==
    /\ x # Undefined
    /\ IF "sec" \in DOMAIN x THEN x.sec # U32Zero \/ x.ms # 0 ELSE x # U32Zero

\* view.getUint32(0, false) of four bytes.
getUint32(b) == [hi |-> b[1] * 256 + b[2], lo |-> b[3] * 256 + b[4]]

\* A little-endian write.
setUint32LittleEndian(v) == << v.lo % 256, v.lo \div 256, v.hi % 256, (v.hi \div 256) % 256 >>

\* view.setUint32(0, v, false).
setUint32(v) == << (v.hi \div 256) % 256, v.hi % 256, v.lo \div 256, v.lo % 256 >>

\* a + b on limbs (the sum is exact: hi may exceed 16 bits).
AddU32(a, b) ==
    [hi |-> a.hi + b.hi + ((a.lo + b.lo) \div 65536), lo |-> (a.lo + b.lo) % 65536]

\* q >= v for an integer q and a limb value v.
IntGeq(q, v) ==
    /\ q >= 0
    /\ \/ v.hi < q \div 65536
       \/ v.hi = q \div 65536 /\ v.lo <= q % 65536

\* metadata.timestamp + metadata.ttl * 1000, as [sec, ms].
ExpiresAt(timestamp, ttl) == [sec |-> AddU32(timestamp.sec, ttl), ms |-> timestamp.ms]

\* now > t for the clock value now (an integer of milliseconds).
NowAfter(now, t) == IntGeq((now - t.ms - 1) \div 1000, t.sec) /\ now - t.ms - 1 >= 0

\* now >= t.
NowAtOrAfter(now, t) == IntGeq((now - t.ms) \div 1000, t.sec) /\ now - t.ms >= 0

(***************************************************************************)
(* Metadata packer (src/utils/metadata.ts)                                 *)
(***************************************************************************)
ALGORITHM_MAP(a) == IF a = "aes-gcm-256" THEN 1 ELSE -1

ALGORITHM_REVERSE_MAP(id) == IF id = 1 THEN "aes-gcm-256" ELSE "undefined"

COMPRESSION_MAP(c) ==
    CASE c = "none" -> 0
      [] c = "brotli" -> 1
      [] c = "lz-string" -> 2
      [] c = "zlib" -> 3
      [] OTHER -> -1

COMPRESSION_REVERSE_MAP(id) ==
    CASE id = 0 -> "none"
      [] id = 1 -> "brotli"
      [] id = 2 -> "lz-string"
      [] id = 3 -> "zlib"
      [] OTHER -> "undefined"

\* flags & mask for a one-bit mask.
HasFlag(flags, mask) == (flags \div mask) % 2 = 1

NoMetadata ==
    [version |-> 0, algorithm |-> "undefined", compression |-> "undefined",
     timestamp |-> Undefined, ttl |-> Undefined]

Ok(v) == [ok |-> TRUE, err |-> "", val |-> v]

Fail(msg, v) == [ok |-> FALSE, err |-> msg, val |-> v]

packMetadata(metadata) ==
    IF ALGORITHM_MAP(metadata.algorithm) = -1
    THEN Fail("Unsupported algorithm", << >>)
    ELSE IF COMPRESSION_MAP(metadata.compression) = -1
    THEN Fail("Unsupported compression", << >>)
    ELSE
      LET flags == (IF metadata.timestamp # Undefined THEN FLAG_HAS_TIMESTAMP ELSE 0)
                 + (IF metadata.ttl # Undefined THEN FLAG_HAS_TTL ELSE 0)
          header == << metadata.version, ALGORITHM_MAP(metadata.algorithm),
                       COMPRESSION_MAP(metadata.compression), flags >>
          \* Math.floor(metadata.timestamp / 1000): the milliseconds are dropped.
          tsBytes == IF metadata.timestamp # Undefined
                     THEN setUint32(metadata.timestamp.sec) ELSE << >>
          ttlBytes == IF metadata.ttl # Undefined
                      THEN setUint32(metadata.ttl) ELSE << >>
      IN  Ok(header \o tsBytes \o ttlBytes)

unpackMetadata(data) ==
    IF Len(data) < 4 THEN Fail("Invalid metadata: too short", NoMetadata)
    ELSE
      LET version == data[1]
          algorithm == ALGORITHM_REVERSE_MAP(data[2])
          compression == COMPRESSION_REVERSE_MAP(data[3])
          flags == data[4]
          hasTs == HasFlag(flags, FLAG_HAS_TIMESTAMP)
          hasTtl == HasFlag(flags, FLAG_HAS_TTL)
          ttlOff == IF hasTs THEN 8 ELSE 4
      IN  IF algorithm = "undefined" THEN Fail("Unknown algorithm ID", NoMetadata)
          ELSE IF compression = "undefined"
          THEN Fail("Unknown compression ID", NoMetadata)
          ELSE IF hasTs /\ Len(data) < 8
          THEN Fail("Invalid metadata: missing timestamp bytes", NoMetadata)
          ELSE IF hasTtl /\ Len(data) < ttlOff + 4
          THEN Fail("Invalid metadata: missing TTL bytes", NoMetadata)
          ELSE Ok([version |-> version,
                   algorithm |-> algorithm,
                   compression |-> compression,
                   \* timestampSeconds * 1000
                   timestamp |-> IF hasTs
                                 THEN [sec |-> getUint32(sliceBytes(data, 4, 8)), ms |-> 0]
                                 ELSE Undefined,
                   ttl |-> IF hasTtl
                           THEN getUint32(sliceBytes(data, ttlOff, ttlOff + 4))
                           ELSE Undefined])

getMetadataSize(metadata) ==
    4 + (IF metadata.timestamp # Undefined THEN 4 ELSE 0)
      + (IF metadata.ttl # Undefined THEN 4 ELSE 0)

\* `ttl` is Undefined or a number of seconds (limbs); `now` is Date.now().
createDefaultMetadata(compression, algorithm, includeTimestamp, ttl, now) ==
    [version |-> 1,
     algorithm |-> algorithm,
     compression |-> compression,
     timestamp |-> IF includeTimestamp THEN Millis(now) ELSE Undefined,
     ttl |-> ttl]

(***************************************************************************)
(* Versioning (src/utils/versioning.ts)                                    *)
(***************************************************************************)
isSupportedVersion(version) == version \in SUPPORTED_VERSIONS

\* A version check that accepts every version.
validateVersionAny(metadata) == TRUE

\* TRUE when validateVersion returns, FALSE when it throws.
validateVersion(metadata) == isSupportedVersion(metadata.version)

(***************************************************************************)
(* JSON (the platform's JSON.stringify / JSON.parse)                       *)
(*                                                                         *)
(* A JSON value is [num |-> n] (a natural number), [str |-> text],         *)
(* [lit |-> "null" | "true" | "false"], [arr |-> <<values>>] or            *)
(* [obj |-> <<[k |-> text, v |-> value], ...>>] (keys in insertion order). *)
(***************************************************************************)
NoData == [lit |-> "undefined"]

JNum(n) == [num |-> n]

JStr(s) == [str |-> s]

JNull == [lit |-> "null"]

JTrue == [lit |-> "true"]

JArr(s) == [arr |-> s]

JObj(s) == [obj |-> s]

RECURSIVE Digits(_)
Digits(n) == IF n < 10 THEN << 48 + n >> ELSE Digits(n \div 10) \o << 48 + (n % 10) >>

\* The body of a string literal: the quote (34) and the backslash (92) are
\* escaped with a backslash.
RECURSIVE Escape(_)
Escape(s) ==
    IF s = << >> THEN << >>
    ELSE (IF s[1] = 34 \/ s[1] = 92 THEN << 92, s[1] >> ELSE << s[1] >>) \o Escape(Tail(s))

Quote(s) == << 34 >> \o Escape(s) \o << 34 >>

RECURSIVE JSONstringify(_)
RECURSIVE StringifyItems(_)
RECURSIVE StringifyMembers(_)
JSONstringify(v) ==
    CASE "num" \in DOMAIN v -> Digits(v.num)
      [] "str" \in DOMAIN v -> Quote(v.str)
      [] "lit" \in DOMAIN v ->
           (CASE v.lit = "null" -> << 110, 117, 108, 108 >>
              [] v.lit = "true" -> << 116, 114, 117, 101 >>
              [] OTHER -> << 102, 97, 108, 115, 101 >>)
      [] "arr" \in DOMAIN v -> << 91 >> \o StringifyItems(v.arr) \o << 93 >>
      [] OTHER -> << 123 >> \o StringifyMembers(v.obj) \o << 125 >>

StringifyItems(items) ==
    IF items = << >> THEN << >>
    ELSE JSONstringify(items[1])
         \o (IF Len(items) > 1 THEN << 44 >> \o StringifyItems(Tail(items)) ELSE << >>)

StringifyMembers(ms) ==
    IF ms = << >> THEN << >>
    ELSE Quote(ms[1].k) \o << 58 >> \o JSONstringify(ms[1].v)
         \o (IF Len(ms) > 1 THEN << 44 >> \o StringifyMembers(Tail(ms)) ELSE << >>)

\* A parse step returns [ok, v, n]: the value read and the position after it.
PFail == [ok |-> FALSE, v |-> NoData, n |-> 0]

POk(v, n) == [ok |-> TRUE, v |-> v, n |-> n]

At(t, i) == IF i >= 1 /\ i <= Len(t) THEN t[i] ELSE -1

IsDigit(c) == c >= 48 /\ c <= 57

HasWord(t, i, w) == i + Len(w) - 1 <= Len(t) /\ \A j \in 1..Len(w) : t[i + j - 1] = w[j]

\* The characters of a string literal from position j (after the opening
\* quote) up to the closing quote.
RECURSIVE ScanString(_, _, _)
ScanString(t, j, acc) ==
    LET c == At(t, j)
    IN  IF c = -1 \/ c < 32 THEN PFail
        ELSE IF c = 34 THEN POk(acc, j + 1)
        ELSE IF c = 92
        THEN IF At(t, j + 1) = 34 \/ At(t, j + 1) = 92
             THEN ScanString(t, j + 2, Append(acc, At(t, j + 1)))
             ELSE PFail
        ELSE ScanString(t, j + 1, Append(acc, c))

RECURSIVE ScanDigits(_, _, _)
ScanDigits(t, j, acc) ==
    IF IsDigit(At(t, j)) /\ acc < 100000
    THEN ScanDigits(t, j + 1, acc * 10 + (At(t, j) - 48))
    ELSE POk(acc, j)

RECURSIVE ParseValue(_, _)
RECURSIVE ParseItems(_, _, _)
RECURSIVE ParseMembers(_, _, _)
ParseValue(t, i) ==
    LET c == At(t, i)
    IN  CASE c = 34 ->
               LET r == ScanString(t, i + 1, << >>)
               IN  IF r.ok THEN POk(JStr(r.v), r.n) ELSE PFail
          [] c = 48 -> POk(JNum(0), i + 1)
          [] IsDigit(c) /\ c # 48 ->
               LET r == ScanDigits(t, i, 0) IN POk(JNum(r.v), r.n)
          [] c = 110 /\ HasWord(t, i, << 110, 117, 108, 108 >>) -> POk(JNull, i + 4)
          [] c = 116 /\ HasWord(t, i, << 116, 114, 117, 101 >>) -> POk(JTrue, i + 4)
          [] c = 102 /\ HasWord(t, i, << 102, 97, 108, 115, 101 >>) ->
               POk([lit |-> "false"], i + 5)
          [] c = 91 ->
               IF At(t, i + 1) = 93 THEN POk(JArr(<< >>), i + 2)
               ELSE ParseItems(t, i + 1, << >>)
          [] c = 123 ->
               IF At(t, i + 1) = 125 THEN POk(JObj(<< >>), i + 2)
               ELSE ParseMembers(t, i + 1, << >>)
          [] OTHER -> PFail

ParseItems(t, i, acc) ==
    LET r == ParseValue(t, i)
    IN  IF ~r.ok THEN PFail
        ELSE IF At(t, r.n) = 44 THEN ParseItems(t, r.n + 1, Append(acc, r.v))
        ELSE IF At(t, r.n) = 93 THEN POk(JArr(Append(acc, r.v)), r.n + 1)
        ELSE PFail

ParseMembers(t, i, acc) ==
    IF At(t, i) # 34 THEN PFail
    ELSE
      LET k == ScanString(t, i + 1, << >>)
      IN  IF ~k.ok \/ At(t, k.n) # 58 THEN PFail
          ELSE
            LET r == ParseValue(t, k.n + 1)
                m == [k |-> k.v, v |-> r.v]
            IN  IF ~r.ok THEN PFail
                ELSE IF At(t, r.n) = 44 THEN ParseMembers(t, r.n + 1, Append(acc, m))
                ELSE IF At(t, r.n) = 125 THEN POk(JObj(Append(acc, m)), r.n + 1)
                ELSE PFail

\* JSON.parse: [ok, val]; it throws unless the whole text is one value.
JSONparse(t) ==
    LET r == ParseValue(t, 1)
    IN  IF r.ok /\ r.n = Len(t) + 1 THEN Ok(r.v) ELSE Fail("SyntaxError", NoData)

\* obj[key] of a parsed object (the last member of that name), or NoData.
RECURSIVE Member(_, _)
Member(v, key) ==
    IF "obj" \notin DOMAIN v \/ v.obj = << >> THEN NoData
    ELSE IF v.obj[Len(v.obj)].k = key THEN v.obj[Len(v.obj)].v
    ELSE Member(JObj(SubSeq(v.obj, 1, Len(v.obj) - 1)), key)

(***************************************************************************)
(* Compression layer (src/core/compression.ts)                             *)
(*                                                                         *)
(* env is the runtime: "node" when process.versions.node is defined,       *)
(* "browser" for a runtime without it that has CompressionStream, "legacy" *)
(* for one that has neither (Web Crypto is there in all three).            *)
(* zlib.deflate / zlib.brotliCompress / lz-string are library  *)
(* calls: each is a stand-in codec that frames the input, so that a stream *)
(* of another algorithm, or a damaged one, is rejected.                    *)
(***************************************************************************)
isNode(env) == env = "node"

\* typeof CompressionStream !== "undefined", where it matters (outside Node).
hasCompressionStream(env) == env = "browser"

\* zlib.deflate: header 0x78 0x9C, the data, a two-byte checksum.
zlibDeflate(data) ==
    << 120, 156 >> \o data \o << SumSeq(data) \div 256, SumSeq(data) % 256 >>

zlibInflate(data) ==
    LET n == Len(data)
        body == sliceBytes(data, 2, n - 2)
    IN  IF n >= 4 /\ data[1] = 120 /\ data[2] = 156
           /\ data[n - 1] = SumSeq(body) \div 256 /\ data[n] = SumSeq(body) % 256
        THEN Ok(body) ELSE Fail("incorrect header check", << >>)

\* zlib.brotliCompress: an uncompressed meta-block, 0x0B <length> 0x80 data 0x03.
brotliCompress(data) == << 11, Len(data) % 256, 128 >> \o data \o << 3 >>

brotliDecompress(data) ==
    LET n == Len(data)
    IN  IF n >= 4 /\ data[1] = 11 /\ data[2] = (n - 4) % 256 /\ data[3] = 128 /\ data[n] = 3
        THEN Ok(sliceBytes(data, 3, n - 1)) ELSE Fail("Decompression failed", << >>)

\* btoa: standard base64 with padding; a digit is its index, '=' is 64.
btoa(data) ==
    LET d == encodeBase64Url(data)
    IN  d \o AsTuple([i \in 1..((4 - (Len(d) % 4)) % 4) |-> 64])

\* atob: [ok, val]; it throws on a text that is not padded base64.
atob(str) ==
    LET body == SelectSeq(str, LAMBDA c : c # 64)
    IN  IF Len(str) % 4 = 0 /\ (\A i \in 1..Len(str) : str[i] \in 0..64)
           /\ body \o AsTuple([i \in 1..(Len(str) - Len(body)) |-> 64]) = str
        THEN Ok(decodeBase64Url(body)) ELSE Fail("InvalidCharacterError", << >>)

\* LZString.compressToUint8Array: a length byte, then one odd byte per character.
lzCompressToUint8Array(str) ==
    << Len(str) % 256 >> \o AsTuple([i \in 1..Len(str) |-> 2 * str[i] + 1])

\* LZString.decompressFromUint8Array: the text, or null (ok = FALSE) on a
\* stream it cannot read.
lzDecompressFromUint8Array(data) ==
    LET n == Len(data)
    IN  IF n >= 1 /\ data[1] = (n - 1) % 256 /\ (\A i \in 2..n : data[i] % 2 = 1)
        THEN Ok(AsTuple([i \in 1..(n - 1) |-> (data[i + 1] - 1) \div 2]))
        ELSE Fail("null", << >>)

NoneCompress(data) == Ok(data)

NoneDecompress(data) == Ok(data)

LZStringCompress(data) ==
    IF Len(data) = 0 THEN Ok(<< >>) ELSE Ok(lzCompressToUint8Array(btoa(data)))

LZStringDecompress(data) ==
    IF Len(data) = 0 THEN Ok(<< >>)
    ELSE
      LET d == lzDecompressFromUint8Array(data)
      IN  \* if (!decompressed): null and the empty text both throw
          IF ~d.ok \/ d.val = << >> THEN Fail("LZ-String decompression failed", << >>)
          ELSE atob(d.val)

BrotliCompress(data, env) ==
    IF isNode(env) THEN Ok(brotliCompress(data)) ELSE LZStringCompress(data)

\* A brotli decompressor without the fallback.
BrotliDecompressNative(data, env) ==
    IF brotliDecompress(data).ok THEN brotliDecompress(data)
    ELSE Fail("Brotli decompression not available in Node.js", << >>)

BrotliDecompress(data, env) ==
    IF isNode(env)
    THEN IF brotliDecompress(data).ok THEN brotliDecompress(data)
         ELSE Fail("Brotli decompression not available in Node.js", << >>)
    ELSE LZStringDecompress(data)

ZlibCompress(data, env) ==
    IF isNode(env) THEN Ok(zlibDeflate(data))
    ELSE Fail("Zlib compression is only available in Node.js", << >>)

ZlibDecompress(data, env) ==
    IF isNode(env)
    THEN IF zlibInflate(data).ok THEN zlibInflate(data)
         ELSE Fail("Zlib decompression not available", << >>)
    ELSE Fail("Zlib decompression is only available in Node.js", << >>)

\* decompress without the algorithm dispatch: the bytes are returned as stored.
decompressSkipped(data, algorithm, env) == NoneDecompress(data)

compress(data, algorithm, env) ==
    CASE algorithm = "none" -> NoneCompress(data)
      [] algorithm = "lz-string" -> LZStringCompress(data)
      [] algorithm = "brotli" -> BrotliCompress(data, env)
      [] algorithm = "zlib" -> ZlibCompress(data, env)
      [] OTHER -> Fail("Unsupported compression algorithm", << >>)

decompress(data, algorithm, env) ==
    CASE algorithm = "none" -> NoneDecompress(data)
      [] algorithm = "lz-string" -> LZStringDecompress(data)
      [] algorithm = "brotli" -> BrotliDecompress(data, env)
      [] algorithm = "zlib" -> ZlibDecompress(data, env)
      [] OTHER -> Fail("Unsupported compression algorithm", << >>)

isCompressionAvailable(algorithm, env) ==
    CASE algorithm \in {"none", "lz-string"} -> TRUE
      [] algorithm = "brotli" -> isNode(env) \/ hasCompressionStream(env)
      [] algorithm = "zlib" -> isNode(env)
      [] OTHER -> FALSE

getDefaultCompression(env) ==
    IF isCompressionAvailable("brotli", env) THEN "brotli" ELSE "lz-string"

(***************************************************************************)
(* Crypto engine (src/core/crypto.ts)                                      *)
(*                                                                         *)
(* A secret is a passphrase [pw |-> text] or raw key bytes                 *)
(* [raw |-> id, len |-> length].  `sealed` is the set of encryptions made  *)
(* so far, [key, iv, ct, pt]: the ideal cipher's memory.                   *)
(***************************************************************************)
isString(secret) == "pw" \in DOMAIN secret

\* randomBytes(length): the r-th draw of the random source.
randomBytes(length, r) == AsTuple([i \in 1..length |-> (16 * r + i) % 256])

\* PBKDF2(password, salt, 100000, SHA-256): a key named by its inputs.
deriveKeyFromPassword(password, salt) == [kdf |-> << password, salt >>]

KeyNum(key) ==
    IF "raw" \in DOMAIN key THEN 7 * key.raw
    ELSE (SumSeq(key.kdf[1]) + SumSeq(key.kdf[2])) % 256

\* AES-256-GCM: the keystream-masked plaintext followed by the 16-byte tag.
gcmEncrypt(key, iv, plaintext) ==
    LET k == KeyNum(key) + SumSeq(iv)
        body == AsTuple([i \in 1..Len(plaintext) |-> (plaintext[i] + k + 7 * i) % 256])
        t == k + SumSeq(body)
    IN  body \o AsTuple([j \in 1..TAG_LENGTH |-> (t + 13 * j) % 256])

\* A cipher that tells a wrong key from a changed ciphertext.
gcmDecryptTelling(key, iv, ciphertext, sealed) ==
    LET hits == {e \in sealed : e.key = key /\ e.iv = iv /\ e.ct = ciphertext}
    IN  IF Len(ciphertext) >= TAG_LENGTH /\ hits # {}
        THEN Ok((CHOOSE e \in hits : TRUE).pt)
        ELSE IF \E e \in sealed : e.key = key
        THEN Fail("Decryption failed: corrupted data", << >>)
        ELSE Fail("Decryption failed: invalid key", << >>)

\* A cipher whose tag does not depend on the key.
gcmDecryptAnyKey(key, iv, ciphertext, sealed) ==
    LET hits == {e \in sealed : e.iv = iv /\ e.ct = ciphertext}
    IN  IF Len(ciphertext) >= TAG_LENGTH /\ hits # {}
        THEN Ok((CHOOSE e \in hits : TRUE).pt)
        ELSE Fail("Decryption failed: invalid key or corrupted data", << >>)

\* Decryption verifies the tag: it succeeds exactly on a ciphertext that an
\* encryption under this key and IV produced.
gcmDecrypt(key, iv, ciphertext, sealed) ==
    LET hits == {e \in sealed : e.key = key /\ e.iv = iv /\ e.ct = ciphertext}
    IN  IF Len(ciphertext) >= TAG_LENGTH /\ hits # {}
        THEN Ok((CHOOSE e \in hits : TRUE).pt)
        ELSE Fail("Decryption failed: invalid key or corrupted data", << >>)

\* A key processing that takes raw bytes of any length and any passphrase.
processKeyMaterialUnchecked(secret, rng) ==
    IF ~isString(secret)
    THEN [ok |-> TRUE, err |-> "", key |-> secret, salt |-> << >>, rng |-> rng]
    ELSE LET salt == randomBytes(SALT_LENGTH, rng + 1)
         IN  [ok |-> TRUE, err |-> "",
              key |-> deriveKeyFromPassword(secret.pw, salt),
              salt |-> salt, rng |-> rng + 1]

\* [ok, err, key, salt, rng]: rng is the number of random draws made so far.
processKeyMaterial(secret, rng) ==
    IF ~isString(secret)
    THEN IF secret.len # KEY_LENGTH
         THEN [ok |-> FALSE, err |-> "Key must be exactly 32 bytes (256 bits)",
               key |-> secret, salt |-> << >>, rng |-> rng]
         ELSE [ok |-> TRUE, err |-> "", key |-> secret, salt |-> << >>, rng |-> rng]
    ELSE IF Len(secret.pw) = 0
         THEN [ok |-> FALSE, err |-> "Password cannot be empty",
               key |-> secret, salt |-> << >>, rng |-> rng]
         ELSE LET salt == randomBytes(SALT_LENGTH, rng + 1)
              IN  [ok |-> TRUE, err |-> "",
                   key |-> deriveKeyFromPassword(secret.pw, salt),
                   salt |-> salt, rng |-> rng + 1]

\* [ok, err, iv, ciphertext, salt, rng, seal]: salt is empty for a raw key;
\* seal is what the call adds to the cipher's memory.
encrypt(plaintext, secret, rng) ==
    LET km == processKeyMaterial(secret, rng)
        iv == randomBytes(IV_LENGTH, km.rng + 1)
        ct == gcmEncrypt(km.key, iv, plaintext)
    IN  IF ~km.ok
        THEN [ok |-> FALSE, err |-> km.err, iv |-> << >>, ciphertext |-> << >>,
              salt |-> << >>, rng |-> rng, seal |-> {}]
        ELSE [ok |-> TRUE, err |-> "", iv |-> iv, ciphertext |-> ct,
              salt |-> km.salt, rng |-> km.rng + 1,
              seal |-> {[key |-> km.key, iv |-> iv, ct |-> ct, pt |-> plaintext]}]

\* salt is << >> when the caller passes none.
decrypt(iv, ciphertext, secret, salt, hasSalt, sealed) ==
    IF ~isString(secret) /\ secret.len # KEY_LENGTH
    THEN Fail("Key must be exactly 32 bytes (256 bits)", << >>)
    ELSE IF isString(secret) /\ ~hasSalt
    THEN Fail("Salt is required for password-based decryption", << >>)
    ELSE IF Len(iv) # IV_LENGTH
    THEN Fail("Invalid IV length", << >>)
    ELSE gcmDecrypt(IF isString(secret) THEN deriveKeyFromPassword(secret.pw, salt)
                    ELSE secret,
                    iv, ciphertext, sealed)

(***************************************************************************)
(* Token pipeline (src/cwc.ts)                                             *)
(*                                                                         *)
(* Encode options are [compression, algorithm, includeTimestamp, ttl]: an  *)
(* absent compression or algorithm is "undefined", an absent ttl is        *)
(* Undefined.  `now` is what Date.now() returns during the call.           *)
(***************************************************************************)
\* A default that is no compression at all.
OrDefaultNone(x, d) == IF x = "undefined" THEN "none" ELSE x

OrDefault(x, d) == IF x = "undefined" THEN d ELSE x

\* encode(data, secret): `options = {}`.
NoEncodeOptions ==
    [compression |-> "undefined", algorithm |-> "undefined",
     includeTimestamp |-> FALSE, ttl |-> Undefined]

\* An encode that writes the salt after the IV.
encodeSaltAfterIv(data, secret, options, now, rng, env) ==
    LET jsonBytes == stringToBytes(JSONstringify(data))
        compressionAlgorithm == OrDefault(options.compression, "brotli")
        compressed == compress(jsonBytes, compressionAlgorithm, env)
        encrypted == encrypt(compressed.val, secret, rng)
        metadataBytes == packMetadata(createDefaultMetadata(compressionAlgorithm,
                             OrDefault(options.algorithm, "aes-gcm-256"),
                             options.includeTimestamp, options.ttl, now))
        combined == metadataBytes.val \o encrypted.iv \o encrypted.salt
                        \o encrypted.ciphertext
    IN  [ok |-> compressed.ok /\ encrypted.ok /\ metadataBytes.ok, err |-> "",
         val |-> IF compressed.ok /\ encrypted.ok /\ metadataBytes.ok
                 THEN encodeBase64Url(combined) ELSE << >>,
         rng |-> encrypted.rng, seal |-> encrypted.seal]

\* [ok, err, val, rng, seal]: val is the token.
encode(data, secret, options, now, rng, env) ==
    LET jsonBytes == stringToBytes(JSONstringify(data))
        compressionAlgorithm == OrDefault(options.compression, "brotli")
        compressed == compress(jsonBytes, compressionAlgorithm, env)
        encrypted == encrypt(compressed.val, secret, rng)
        metadata == createDefaultMetadata(compressionAlgorithm,
                                          OrDefault(options.algorithm, "aes-gcm-256"),
                                          options.includeTimestamp, options.ttl, now)
        metadataBytes == packMetadata(metadata)
        combined == metadataBytes.val \o encrypted.salt \o encrypted.iv
                        \o encrypted.ciphertext
    IN  IF ~compressed.ok
        THEN [ok |-> FALSE, err |-> compressed.err, val |-> << >>, rng |-> rng, seal |-> {}]
        ELSE IF ~encrypted.ok
        THEN [ok |-> FALSE, err |-> encrypted.err, val |-> << >>, rng |-> rng, seal |-> {}]
        ELSE IF ~metadataBytes.ok
        THEN [ok |-> FALSE, err |-> metadataBytes.err, val |-> << >>,
              rng |-> encrypted.rng, seal |-> encrypted.seal]
        ELSE [ok |-> TRUE, err |-> "", val |-> encodeBase64Url(combined),
              rng |-> encrypted.rng, seal |-> encrypted.seal]

\* An expiry test that never fires.
decodeNeverExpired(metadata, now) == FALSE

\* The expiry test of decode.
decodeExpired(metadata, now) ==
    /\ Truthy(metadata.timestamp)
    /\ Truthy(metadata.ttl)
    /\ NowAfter(now, ExpiresAt(metadata.timestamp, metadata.ttl))

\* A decode that looks at the expiry before it decrypts.
decodeExpiryFirst(token, secret, now, sealed, env) ==
    LET combined == decodeBase64Url(token)
        unpacked == unpackMetadata(combined)
        metadata == unpacked.val
        offset == getMetadataSize(metadata)
        saltLen == IF isString(secret) THEN 16 ELSE 0
        decrypted == decrypt(sliceBytes(combined, offset + saltLen, offset + saltLen + 12),
                             sliceFrom(combined, offset + saltLen + 12), secret,
                             sliceBytes(combined, offset, offset + saltLen),
                             isString(secret), sealed)
        decompressed == decompress(decrypted.val, metadata.compression, env)
        parsed == JSONparse(bytesToString(decompressed.val))
    IN  IF Len(combined) < 4 THEN Fail("Invalid token: too short", NoData)
        ELSE IF ~unpacked.ok THEN Fail("Invalid token: " \o unpacked.err, NoData)
        ELSE IF ~validateVersion(metadata)
        THEN Fail("Invalid token: Unsupported token version", NoData)
        ELSE IF Truthy(metadata.timestamp) /\ Truthy(metadata.ttl)
                /\ NowAfter(now, ExpiresAt(metadata.timestamp, metadata.ttl))
        THEN Fail("Token has expired", NoData)
        ELSE IF Len(combined) < offset + saltLen + 12
        THEN Fail("Invalid token: corrupted data", NoData)
        ELSE IF ~decrypted.ok THEN Fail("Decryption failed: " \o decrypted.err, NoData)
        ELSE IF ~decompressed.ok
        THEN Fail("Decompression failed: " \o decompressed.err, NoData)
        ELSE IF ~parsed.ok THEN Fail("Invalid token: not valid JSON", NoData)
        ELSE Ok(parsed.val)

\* [ok, err, val]: val is the data.  A token is a sequence of base64url
\* digits, so decodeBase64Url does not throw.
decode(token, secret, now, sealed, env) ==
    LET combined == decodeBase64Url(token)
        unpacked == unpackMetadata(combined)
        metadata == unpacked.val
        offset == getMetadataSize(metadata)
        saltLen == IF isString(secret) THEN 16 ELSE 0
        minSize == offset + saltLen + 12
        salt == sliceBytes(combined, offset, offset + saltLen)
        iv == sliceBytes(combined, offset + saltLen, offset + saltLen + 12)
        ciphertext == sliceFrom(combined, offset + saltLen + 12)
        decrypted == decrypt(iv, ciphertext, secret, salt, isString(secret), sealed)
        decompressed == decompress(decrypted.val, metadata.compression, env)
        parsed == JSONparse(bytesToString(decompressed.val))
    IN  IF Len(combined) < 4 THEN Fail("Invalid token: too short", NoData)
        ELSE IF ~unpacked.ok THEN Fail("Invalid token: " \o unpacked.err, NoData)
        ELSE IF ~validateVersion(metadata)
        THEN Fail("Invalid token: Unsupported token version", NoData)
        ELSE IF Len(combined) < minSize THEN Fail("Invalid token: corrupted data", NoData)
        ELSE IF ~decrypted.ok THEN Fail("Decryption failed: " \o decrypted.err, NoData)
        ELSE IF ~decompressed.ok
        THEN Fail("Decompression failed: " \o decompressed.err, NoData)
        ELSE IF ~parsed.ok THEN Fail("Invalid token: not valid JSON", NoData)
        ELSE IF decodeExpired(metadata, now) THEN Fail("Token has expired", NoData)
        ELSE Ok(parsed.val)

\* A validation that looks at the header only.
validateTokenHeaderOnly(token) ==
    LET unpacked == unpackMetadata(decodeBase64Url(token))
    IN  unpacked.ok /\ validateVersion(unpacked.val)

\* TRUE or FALSE: every exception is turned into FALSE.
validateToken(token) ==
    LET combined == decodeBase64Url(token)
        unpacked == unpackMetadata(combined)
    IN  IF Len(combined) < 4 THEN FALSE
        ELSE IF ~unpacked.ok THEN FALSE
        ELSE IF ~validateVersion(unpacked.val) THEN FALSE
        ELSE Len(combined) >= getMetadataSize(unpacked.val) + 12 + 16

\* [ok, err, val]: val is the metadata.
extractMetadata(token) ==
    LET unpacked == unpackMetadata(decodeBase64Url(token))
    IN  IF ~unpacked.ok THEN Fail("Invalid token: " \o unpacked.err, NoMetadata)
        ELSE IF ~validateVersion(unpacked.val)
        THEN Fail("Invalid token: Unsupported token version", NoMetadata)
        ELSE Ok(unpacked.val)

(***************************************************************************)
(* TTL helpers (src/utils/ttl.ts)                                          *)
(***************************************************************************)
isMetadataExpired(metadata, now) ==
    IF ~Truthy(metadata.timestamp) \/ ~Truthy(metadata.ttl) THEN FALSE
    ELSE NowAtOrAfter(now, ExpiresAt(metadata.timestamp, metadata.ttl))

\* [ok, err, val]: val is the boolean; it throws what extractMetadata throws.
isExpired(token, now) ==
    LET metadata == extractMetadata(token)
    IN  IF ~metadata.ok THEN Fail(metadata.err, FALSE)
        ELSE Ok(isMetadataExpired(metadata.val, now))

(***************************************************************************)
(* Key rotation (src/utils/keyRotation.ts)                                 *)
(***************************************************************************)
\* A rotation that re-encodes under the old secret.
rotateKeyUnderOld(token, oldSecret, newSecret, options, now, rng, sealed, env) ==
    LET data == decode(token, oldSecret, now, sealed, env)
    IN  IF ~data.ok
        THEN [ok |-> FALSE, err |-> data.err, val |-> << >>, rng |-> rng, seal |-> {}]
        ELSE encode(data.val, oldSecret, options, now, rng, env)

\* [ok, err, val, rng, seal] like encode.
rotateKey(token, oldSecret, newSecret, options, now, rng, sealed, env) ==
    LET data == decode(token, oldSecret, now, sealed, env)
    IN  IF ~data.ok
        THEN [ok |-> FALSE, err |-> data.err, val |-> << >>, rng |-> rng, seal |-> {}]
        ELSE encode(data.val, newSecret, options, now, rng, env)

\* tokens.map((token) => rotateKey(token, oldSecret, newSecret, options))
\* from element i (1-based) on; acc is [val, errs, rng, seal], the outcome of
\* the elements before i, and acc.rng counts the draws.
RECURSIVE rotateKeysFrom(_, _, _, _, _, _, _, _, _, _)
rotateKeysFrom(tokens, oldSecret, newSecret, options, now, rng, sealed, env, i, acc) ==
    IF i > Len(tokens) THEN acc
    ELSE LET r == rotateKey(tokens[i], oldSecret, newSecret, options, now, acc.rng,
                            sealed, env)
         IN  rotateKeysFrom(tokens, oldSecret, newSecret, options, now, rng, sealed, env,
                 i + 1,
                 [val |-> IF r.ok THEN Append(acc.val, r.val) ELSE acc.val,
                  errs |-> IF r.ok THEN acc.errs ELSE acc.errs \cup {r.err},
                  rng |-> r.rng,
                  seal |-> acc.seal \cup r.seal])

\* A batch rotation that leaves out the tokens it could not rotate.
rotateKeysPartial(tokens, oldSecret, newSecret, options, now, rng, sealed, env) ==
    [rotateKeysFrom(tokens, oldSecret, newSecret, options, now, rng, sealed, env, 1,
                    [val |-> << >>, errs |-> {}, rng |-> rng, seal |-> {}])
        EXCEPT !.errs = {}]

\* Promise.all(tokens.map((token) => rotateKey(...))).  The rotateKey calls
\* all run to their end whether or not another one fails; their random draws
\* are numbered here in array order.  The result is [val, errs, rng, seal]:
\* val lists the tokens of the calls that were fulfilled, errs is the set of
\* the messages the other calls were rejected with.  Promise.all is fulfilled
\* with val when errs is empty and rejected with the error of the call that
\* was rejected first otherwise.
rotateKeys(tokens, oldSecret, newSecret, options, now, rng, sealed, env) ==
    rotateKeysFrom(tokens, oldSecret, newSecret, options, now, rng, sealed, env, 1,
                   [val |-> << >>, errs |-> {}, rng |-> rng, seal |-> {}])

\* `if (!secret) continue`: a secret is falsy when it is the empty string.
isFalsy(secret) == isString(secret) /\ Len(secret.pw) = 0

\* A fallback that goes on after a success and returns the last one.
RECURSIVE decodeWithKeyFallbackLast(_, _, _, _, _, _, _)
decodeWithKeyFallbackLast(token, secrets, now, sealed, env, i, acc) ==
    IF i >= Len(secrets) THEN acc
    ELSE LET r == decode(token, secrets[i + 1], now, sealed, env)
         IN  decodeWithKeyFallbackLast(token, secrets, now, sealed, env, i + 1,
                 IF isFalsy(secrets[i + 1]) THEN acc
                 ELSE IF r.ok
                 THEN [acc EXCEPT !.ok = TRUE, !.err = "", !.val = r.val, !.keyIndex = i,
                                  !.tried = Append(acc.tried, i)]
                 ELSE [acc EXCEPT !.tried = Append(acc.tried, i),
                                  !.errors = Append(acc.errors, r.err)])

\* The loop of decodeWithKeyFallback from index i (0-based) on.  The result is
\* [ok, err, val, keyIndex, tried, count, errors]: tried lists the indices
\* decode was called for, in the order of the calls; count and errors are the
\* two templated parts of the message thrown at the end,
\* `... any of the ${secrets.length} provided keys. Errors: ${...join("; ")}`.
\* acc is the result so far, a failure.
RECURSIVE decodeWithKeyFallback(_, _, _, _, _, _, _)
decodeWithKeyFallback(token, secrets, now, sealed, env, i, acc) ==
    IF i >= Len(secrets) THEN acc
    ELSE IF isFalsy(secrets[i + 1])
    THEN decodeWithKeyFallback(token, secrets, now, sealed, env, i + 1, acc)
    ELSE LET r == decode(token, secrets[i + 1], now, sealed, env)
         IN  IF r.ok
             THEN [acc EXCEPT !.ok = TRUE, !.err = "", !.val = r.val, !.keyIndex = i,
                              !.tried = Append(acc.tried, i)]
             ELSE decodeWithKeyFallback(token, secrets, now, sealed, env, i + 1,
                      [acc EXCEPT !.tried = Append(acc.tried, i),
                                  !.errors = Append(acc.errors, r.err)])

\* `const errors = []` and the message thrown when the loop ends.
NoneDecoded(secrets) ==
    [ok |-> FALSE, err |-> "Failed to decode token with any of the provided keys",
     val |-> NoData, keyIndex |-> -1, tried |-> << >>, count |-> Len(secrets),
     errors |-> << >>]

\* A dry run that stops after the decode under the old secret.
validateKeyRotationDecodeOnly(token, oldSecret, newSecret, now, rng, sealed, env) ==
    [val |-> decode(token, oldSecret, now, sealed, env).ok, rng |-> rng, seal |-> {}]

\* [val, rng, seal]: val is the boolean returned; every exception becomes
\* FALSE.
validateKeyRotation(token, oldSecret, newSecret, now, rng, sealed, env) ==
    LET data == decode(token, oldSecret, now, sealed, env)
        newToken == encode(data.val, newSecret, NoEncodeOptions, now, rng, env)
        again == decode(newToken.val, newSecret, now, sealed \cup newToken.seal, env)
    IN  IF ~data.ok THEN [val |-> FALSE, rng |-> rng, seal |-> {}]
        ELSE IF ~newToken.ok
        THEN [val |-> FALSE, rng |-> newToken.rng, seal |-> newToken.seal]
        ELSE [val |-> again.ok, rng |-> newToken.rng, seal |-> newToken.seal]

(***************************************************************************)
(* Streaming (src/utils/streaming.ts)                                      *)
(*                                                                         *)
(* A chunk is [token, metadata] with metadata [index, total, chunkId].     *)
(***************************************************************************)
\* A digit of Number.prototype.toString(36): 0-9 then a-z.
Base36(d) == IF d < 10 THEN 48 + d ELSE 87 + d

\* A chunk id without the random part.
generateChunkIdOfClock(now, r) == Digits(now) \o << 45 >>

\* `${Date.now()}-${Math.random().toString(36).slice(2, 11)}` for the r-th
\* draw of the random source.
generateChunkId(now, r) ==
    Digits(now) \o << 45 >> \o AsTuple([i \in 1..9 |-> Base36((r * i + i) % 36)])

\* "data", "meta", "index", "total" and "chunkId".
KeyData == << 100, 97, 116, 97 >>

KeyMeta == << 109, 101, 116, 97 >>

KeyIndex == << 105, 110, 100, 101, 120 >>

KeyTotal == << 116, 111, 116, 97, 108 >>

KeyChunkId == << 99, 104, 117, 110, 107, 73, 100 >>

\* { data: chunkData, meta: { index, total, chunkId } }
chunkPayload(chunkData, index, total, chunkId) ==
    JObj(<< [k |-> KeyData, v |-> JStr(chunkData)],
            [k |-> KeyMeta,
             v |-> JObj(<< [k |-> KeyIndex, v |-> JNum(index)],
                           [k |-> KeyTotal, v |-> JNum(total)],
                           [k |-> KeyChunkId, v |-> JStr(chunkId)] >>)] >>)

\* The loop of encodeStream from chunk i on; acc is [ok, err, val, rng, seal]
\* with val the chunks pushed so far.
RECURSIVE encodeChunks(_, _, _, _, _, _, _, _, _, _)
encodeChunks(json, secret, options, chunkSize, numChunks, chunkId, now, env, i, acc) ==
    IF i >= numChunks \/ ~acc.ok THEN acc
    ELSE
      LET start == i * chunkSize
          end == Min(start + chunkSize, Len(json))
          chunkData == sliceBytes(json, start, end)
          t == encode(chunkPayload(chunkData, i, numChunks, chunkId), secret, options,
                      now, acc.rng, env)
          chunk == [token |-> t.val,
                    metadata |-> [index |-> i, total |-> numChunks, chunkId |-> chunkId]]
      IN  encodeChunks(json, secret, options, chunkSize, numChunks, chunkId, now, env, i + 1,
                       IF t.ok
                       THEN [ok |-> TRUE, err |-> "", val |-> Append(acc.val, chunk),
                             rng |-> t.rng, seal |-> acc.seal \cup t.seal]
                       ELSE [ok |-> FALSE, err |-> t.err, val |-> << >>,
                             rng |-> t.rng, seal |-> acc.seal \cup t.seal])

\* An encodeStream that counts floor(totalSize / chunkSize) + 1 chunks.
encodeStreamExtraChunk(data, secret, options, chunkSize, now, rng, env) ==
    LET json == JSONstringify(data)
        chunkId == generateChunkId(now, rng + 1)
    IN  encodeChunks(json, secret, options, chunkSize, (Len(json) \div chunkSize) + 1,
                     chunkId, now, env, 0,
                     [ok |-> TRUE, err |-> "", val |-> << >>, rng |-> rng + 1, seal |-> {}])

\* [ok, err, val, rng, seal]: val is the list of chunks; chunkSize >= 1.
encodeStream(data, secret, options, chunkSize, now, rng, env) ==
    LET json == JSONstringify(data)
        totalSize == Len(json)
        \* Math.ceil(totalSize / chunkSize)
        numChunks == (totalSize + chunkSize - 1) \div chunkSize
        chunkId == generateChunkId(now, rng + 1)
    IN  encodeChunks(json, secret, options, chunkSize, numChunks, chunkId, now, env, 0,
                     [ok |-> TRUE, err |-> "", val |-> << >>, rng |-> rng + 1, seal |-> {}])

\* decoded.meta.index and the like: the number, or -1 when it is no number.
NumberOf(v) == IF "num" \in DOMAIN v THEN v.num ELSE -1

metaOf(decoded) == Member(decoded, KeyMeta)

indexOf(decoded) == NumberOf(Member(metaOf(decoded), KeyIndex))

\* decodedChunks.sort((a, b) => a.meta.index - b.meta.index): a stable sort.
RECURSIVE insertByIndex(_, _)
insertByIndex(sorted, x) ==
    IF sorted = << >> THEN << x >>
    ELSE IF indexOf(sorted[Len(sorted)]) <= indexOf(x) THEN Append(sorted, x)
    ELSE Append(insertByIndex(SubSeq(sorted, 1, Len(sorted) - 1), x), sorted[Len(sorted)])

\* No sort: the chunks stay in the order given.
sortByIndexSkipped(s) == s

RECURSIVE sortByIndex(_)
sortByIndex(s) ==
    IF s = << >> THEN << >>
    ELSE insertByIndex(sortByIndex(SubSeq(s, 1, Len(s) - 1)), s[Len(s)])

\* decodedChunks.map((chunk) => chunk.data).join("")
RECURSIVE joinData(_)
joinData(s) ==
    IF s = << >> THEN << >>
    ELSE (LET d == Member(s[1], KeyData)
          IN  IF "str" \in DOMAIN d THEN d.str ELSE JSONstringify(d))
         \o joinData(Tail(s))

\* A decodeStream that takes the total from the metadata field of the first
\* chunk passed in.
decodeStreamTrusting(chunks, secret, now, sealed, env) ==
    LET results == AsTuple([i \in 1..Len(chunks) |->
                               decode(chunks[i].token, secret, now, sealed, env)])
        sorted == sortByIndex(AsTuple([i \in 1..Len(chunks) |-> results[i].val]))
        parsed == JSONparse(joinData(sorted))
    IN  [ok |-> Len(chunks) > 0 /\ (\A i \in 1..Len(chunks) : results[i].ok)
                  /\ chunks[1].metadata.total = Len(chunks) /\ parsed.ok,
         err |-> "Incomplete chunks", val |-> parsed.val,
         expected |-> -1, got |-> -1, at |-> -1]

\* The templated parts of the messages of decodeStream added to an outcome:
\* `expected ${total}, got ${decodedChunks.length}` and `at index ${i}`
\* (-1 where the message has no such part).
Told(r, expected, got, at) ==
    [ok |-> r.ok, err |-> r.err, val |-> r.val,
     expected |-> expected, got |-> got, at |-> at]

\* decodeStream once every chunk has been given to decode: results lists what
\* the decode calls came to, in the order of the chunks.  The loop stops at
\* the first decode that throws.
reassemble(results) ==
    CHOOSE outcome \in UNION {{
        LET failed == {i \in 1..Len(results) : ~results[i].ok}
            firstFailed == CHOOSE i \in failed : \A j \in failed : i <= j
            decodedChunks == AsTuple([i \in 1..Len(results) |-> results[i].val])
            chunkId == Member(metaOf(decodedChunks[1]), KeyChunkId)
            total == NumberOf(Member(metaOf(sorted[1]), KeyTotal))
            \* the positions (0-based) where the sorted list does not hold its index
            off == {i \in 0..(Len(sorted) - 1) : indexOf(sorted[i + 1]) # i}
        IN  IF Len(results) = 0 THEN Told(Fail("No chunks provided", NoData), -1, -1, -1)
            ELSE IF failed # {} THEN Told(Fail(results[firstFailed].err, NoData), -1, -1, -1)
            ELSE IF chunkId = NoData \/ chunkId = JStr(<< >>)
            THEN Told(Fail("Invalid chunk: missing chunk ID", NoData), -1, -1, -1)
            ELSE IF \E i \in 1..Len(decodedChunks) :
                        Member(metaOf(decodedChunks[i]), KeyChunkId) # chunkId
            THEN Told(Fail("Chunk ID mismatch: chunks are from different streams", NoData),
                      -1, -1, -1)
            ELSE IF Len(decodedChunks) # total
            THEN Told(Fail("Incomplete chunks", NoData), total, Len(decodedChunks), -1)
            ELSE IF off # {}
            THEN Told(Fail("Missing chunk at index", NoData), -1, -1,
                      CHOOSE i \in off : \A j \in off : i <= j)
            ELSE IF ~parsed.ok
            THEN Told(Fail("Failed to parse reassembled data", NoData), -1, -1, -1)
            ELSE Told(Ok(parsed.val), -1, -1, -1)
        : parsed \in {JSONparse(joinData(sorted))}}
        : sorted \in {sortByIndex(AsTuple([i \in 1..Len(results) |-> results[i].val]))}}
        : TRUE

\* [ok, err, val, expected, got, at]: val is the reassembled data.
decodeStream(chunks, secret, now, sealed, env) ==
    CHOOSE outcome \in
        {reassemble(results) :
            results \in {AsTuple([i \in 1..Len(chunks) |->
                            decode(chunks[i].token, secret, now, sealed, env)])}} : TRUE

(***************************************************************************)
(* Calls in flight                                                         *)
(*                                                                         *)
(* encode, decode, rotateKey, rotateKeys, encodeStream and decodeStream    *)
(* are async functions: a call runs to its next await, and other calls run *)
(* before it goes on.  A job is one encode, decode or rotateKey call at an *)
(* await: pc names the awaited step ("compress", "encrypt" and "pack" for  *)
(* encode; "decrypt", "decompress" and "parse" for decode; rotateKey goes  *)
(* through the six), and the other fields are the call's arguments and     *)
(* locals.  The code a call runs before its first await reads nothing but  *)
(* its arguments; it is run with the first awaited step.                   *)
(***************************************************************************)
\* No secret, and rotateKey(token, oldSecret, newSecret) without options.
NoSecret == [none |-> TRUE]

NoOptions ==
    [compression |-> "undefined", algorithm |-> "undefined",
     includeTimestamp |-> FALSE, ttl |-> Undefined]

NoJob ==
    [op |-> "none", pc |-> "done", ok |-> FALSE, err |-> "",
     data |-> NoData, secret |-> NoSecret, next |-> NoSecret, options |-> NoOptions,
     token |-> << >>, bytes |-> << >>, salt |-> << >>, iv |-> << >>,
     meta |-> NoMetadata]

encodeJob(data, secret, options) ==
    [NoJob EXCEPT !.op = "encode", !.pc = "compress", !.data = data,
                  !.secret = secret, !.options = options]

decodeJob(token, secret) ==
    [NoJob EXCEPT !.op = "decode", !.pc = "decrypt", !.token = token, !.secret = secret]

\* const data = await decode(token, oldSecret); return encode(data, newSecret, options)
rotateJob(token, oldSecret, newSecret, options) ==
    [NoJob EXCEPT !.op = "rotateKey", !.pc = "decrypt", !.token = token,
                  !.secret = oldSecret, !.next = newSecret, !.options = options]

\* The call throws.
thrown(j, msg) == [j EXCEPT !.pc = "done", !.ok = FALSE, !.err = msg]

\* encode up to `await compress(jsonBytes, compressionAlgorithm)`.
jobCompress(j, env) ==
    LET c == compress(stringToBytes(JSONstringify(j.data)),
                      OrDefault(j.options.compression, "brotli"), env)
    IN  IF ~c.ok THEN thrown(j, c.err)
        ELSE [j EXCEPT !.pc = "encrypt", !.bytes = c.val]

\* `await encrypt(compressed, secret)`: [job, rng, seal].
jobEncrypt(j, rng) ==
    LET e == encrypt(j.bytes, j.secret, rng)
    IN  [job |-> IF ~e.ok THEN thrown(j, e.err)
                 ELSE [j EXCEPT !.pc = "pack", !.bytes = e.ciphertext,
                                !.salt = e.salt, !.iv = e.iv],
         rng |-> e.rng, seal |-> e.seal]

\* The rest of encode: the metadata, with Date.now(), and the token.
jobPack(j, now) ==
    LET metadataBytes ==
            packMetadata(createDefaultMetadata(
                OrDefault(j.options.compression, "brotli"),
                OrDefault(j.options.algorithm, "aes-gcm-256"),
                j.options.includeTimestamp, j.options.ttl, now))
    IN  IF ~metadataBytes.ok THEN thrown(j, metadataBytes.err)
        ELSE [j EXCEPT !.pc = "done", !.ok = TRUE,
                       !.token = encodeBase64Url(metadataBytes.val \o j.salt \o j.iv
                                                    \o j.bytes)]

\* decode up to `await decrypt({ iv, ciphertext }, secret, salt)`.
jobDecrypt(j, sealed) ==
    LET combined == decodeBase64Url(j.token)
        unpacked == unpackMetadata(combined)
        offset == getMetadataSize(unpacked.val)
        saltLen == IF isString(j.secret) THEN 16 ELSE 0
        decrypted == decrypt(sliceBytes(combined, offset + saltLen, offset + saltLen + 12),
                             sliceFrom(combined, offset + saltLen + 12), j.secret,
                             sliceBytes(combined, offset, offset + saltLen),
                             isString(j.secret), sealed)
    IN  IF Len(combined) < 4 THEN thrown(j, "Invalid token: too short")
        ELSE IF ~unpacked.ok THEN thrown(j, "Invalid token: " \o unpacked.err)
        ELSE IF ~validateVersion(unpacked.val)
        THEN thrown(j, "Invalid token: Unsupported token version")
        ELSE IF Len(combined) < offset + saltLen + 12
        THEN thrown(j, "Invalid token: corrupted data")
        ELSE IF ~decrypted.ok THEN thrown(j, "Decryption failed: " \o decrypted.err)
        ELSE [j EXCEPT !.pc = "decompress", !.bytes = decrypted.val, !.meta = unpacked.val]

\* `await decompress(decrypted, metadata.compression)`.
jobDecompress(j, env) ==
    LET d == decompress(j.bytes, j.meta.compression, env)
    IN  IF ~d.ok THEN thrown(j, "Decompression failed: " \o d.err)
        ELSE [j EXCEPT !.pc = "parse", !.bytes = d.val]

\* The rest of decode: the JSON and the expiry, with Date.now().  rotateKey
\* goes on with encode(data, newSecret, options).
jobParse(j, now) ==
    LET parsed == JSONparse(bytesToString(j.bytes))
    IN  IF ~parsed.ok THEN thrown(j, "Invalid token: not valid JSON")
        ELSE IF decodeExpired(j.meta, now) THEN thrown(j, "Token has expired")
        ELSE IF j.op = "rotateKey"
        THEN [j EXCEPT !.pc = "compress", !.data = parsed.val, !.secret = j.next]
        ELSE [j EXCEPT !.pc = "done", !.ok = TRUE, !.data = parsed.val]

\* The job goes on to its next await: [job, rng, seal].
stepJob(j, now, rng, sealed, env) ==
    CASE j.pc = "compress" -> [job |-> jobCompress(j, env), rng |-> rng, seal |-> {}]
      [] j.pc = "encrypt" -> jobEncrypt(j, rng)
      [] j.pc = "pack" -> [job |-> jobPack(j, now), rng |-> rng, seal |-> {}]
      [] j.pc = "decrypt" -> [job |-> jobDecrypt(j, sealed), rng |-> rng, seal |-> {}]
      [] j.pc = "decompress" -> [job |-> jobDecompress(j, env), rng |-> rng, seal |-> {}]
      [] j.pc = "parse" -> [job |-> jobParse(j, now), rng |-> rng, seal |-> {}]

\* Math.ceil(totalSize / chunkSize) for totalSize >= 0: [n, inf].  A division
\* by zero gives Infinity (NaN for 0 / 0, and `i < NaN` is false like `i < 0`).
numChunksOf(totalSize, chunkSize) ==
    IF chunkSize > 0 THEN [n |-> (totalSize + chunkSize - 1) \div chunkSize, inf |-> FALSE]
    ELSE IF chunkSize = 0 THEN [n |-> 0, inf |-> totalSize > 0]
    ELSE [n |-> 0 - (totalSize \div (0 - chunkSize)), inf |-> FALSE]

\* i < numChunks
below(i, numChunks) == numChunks.inf \/ i < numChunks.n

\* The number Infinity outside JSON.
Infinity == [inf |-> TRUE]

\* A call in flight.  kind is the function; jobs are the encode, decode and
\* rotateKey calls it has started and awaits (one for a stream, which awaits
\* them in turn; all of them for rotateKeys); data, secret, next, options,
\* chunkSize, token and list (tokens or chunks) are its arguments; json,
\* numChunks, chunkId, i and acc (the chunks pushed or the chunks decoded)
\* are the locals of a stream; done tells that the promise is settled, ok
\* and err how, and val, out and expected, got, at hold what it was settled
\* with (the data; the token, tokens or chunks; the numbers of the message).
NoCall ==
    [kind |-> "none", jobs |-> << >>, data |-> NoData, secret |-> NoSecret,
     next |-> NoSecret, options |-> NoOptions, chunkSize |-> 0, token |-> << >>,
     list |-> << >>, json |-> << >>, numChunks |-> [n |-> 0, inf |-> FALSE],
     chunkId |-> << >>, i |-> 0, acc |-> << >>,
     done |-> FALSE, ok |-> FALSE, err |-> "", val |-> NoData, out |-> << >>,
     expected |-> -1, got |-> -1, at |-> -1]

callEncode(data, secret, options) ==
    [NoCall EXCEPT !.kind = "encode", !.data = data, !.secret = secret,
                   !.options = options, !.jobs = << encodeJob(data, secret, options) >>]

callDecode(token, secret) ==
    [NoCall EXCEPT !.kind = "decode", !.token = token, !.secret = secret,
                   !.jobs = << decodeJob(token, secret) >>]

callRotateKey(token, oldSecret, newSecret, options) ==
    [NoCall EXCEPT !.kind = "rotateKey", !.token = token, !.secret = oldSecret,
                   !.next = newSecret, !.options = options,
                   !.jobs = << rotateJob(token, oldSecret, newSecret, options) >>]

\* Promise.all(tokens.map((token) => rotateKey(...))): every rotateKey call
\* is started before the first one goes on; Promise.all([]) is fulfilled.
callRotateKeys(tokens, oldSecret, newSecret, options) ==
    [NoCall EXCEPT !.kind = "rotateKeys", !.list = tokens, !.secret = oldSecret,
                   !.next = newSecret, !.options = options,
                   !.jobs = AsTuple([k \in 1..Len(tokens) |->
                                rotateJob(tokens[k], oldSecret, newSecret, options)]),
                   !.done = (Len(tokens) = 0), !.ok = (Len(tokens) = 0)]

\* { data: chunkData, meta: { index, total, chunkId } } with the total a
\* JSON value: JSON.stringify writes Infinity as null.
chunkPayloadOf(chunkData, index, numChunks, chunkId) ==
    JObj(<< [k |-> KeyData, v |-> JStr(chunkData)],
            [k |-> KeyMeta,
             v |-> JObj(<< [k |-> KeyIndex, v |-> JNum(index)],
                           [k |-> KeyTotal,
                            v |-> IF numChunks.inf THEN JNull ELSE JNum(numChunks.n)],
                           [k |-> KeyChunkId, v |-> JStr(chunkId)] >>)] >>)

\* The body of the loop of encodeStream up to `await encode(...)`, or the
\* return when the loop is over.
streamNextChunk(c) ==
    IF ~below(c.i, c.numChunks)
    THEN [c EXCEPT !.jobs = << >>, !.done = TRUE, !.ok = TRUE, !.out = c.acc]
    ELSE LET start == c.i * c.chunkSize
             end == Min(start + c.chunkSize, Len(c.json))
         IN  [c EXCEPT !.jobs = << encodeJob(chunkPayloadOf(sliceBytes(c.json, start, end),
                                                           c.i, c.numChunks, c.chunkId),
                                            c.secret, c.options) >>]

\* encodeStream up to its first await; the chunk id takes draw rng + 1.
callEncodeStream(data, secret, options, chunkSize, now, rng) ==
    streamNextChunk(
        [NoCall EXCEPT !.kind = "encodeStream", !.data = data, !.secret = secret,
                       !.options = options, !.chunkSize = chunkSize,
                       !.json = JSONstringify(data),
                       !.numChunks = numChunksOf(Len(JSONstringify(data)), chunkSize),
                       !.chunkId = generateChunkId(now, rng + 1)])

\* The settled promise of decodeStream.
streamSettled(c, r) ==
    [c EXCEPT !.jobs = << >>, !.done = TRUE, !.ok = r.ok, !.err = r.err, !.val = r.val,
              !.expected = r.expected, !.got = r.got, !.at = r.at]

\* decodeStream up to its first await.
callDecodeStream(chunks, secret) ==
    LET c == [NoCall EXCEPT !.kind = "decodeStream", !.list = chunks, !.secret = secret]
    IN  IF Len(chunks) = 0 THEN streamSettled(c, reassemble(<< >>))
        ELSE [c EXCEPT !.jobs = << decodeJob(chunks[1].token, secret) >>]

\* What a call does when its job k is over.
afterJob(c, k) ==
    LET j == c.jobs[k]
    IN  CASE c.kind = "encode" ->
               [c EXCEPT !.done = TRUE, !.ok = j.ok, !.err = j.err, !.out = j.token]
          [] c.kind = "decode" ->
               [c EXCEPT !.done = TRUE, !.ok = j.ok, !.err = j.err,
                         !.val = IF j.ok THEN j.data ELSE NoData]
          [] c.kind = "rotateKey" ->
               [c EXCEPT !.done = TRUE, !.ok = j.ok, !.err = j.err, !.out = j.token]
          [] c.kind = "rotateKeys" ->
               \* Promise.all: rejected with the first rejection, fulfilled
               \* with all the tokens when the last call is fulfilled
               IF c.done THEN c
               ELSE IF ~j.ok THEN [c EXCEPT !.done = TRUE, !.ok = FALSE, !.err = j.err]
               ELSE IF \A m \in 1..Len(c.jobs) : c.jobs[m].pc = "done"
               THEN [c EXCEPT !.done = TRUE, !.ok = TRUE,
                              !.out = AsTuple([m \in 1..Len(c.jobs) |-> c.jobs[m].token])]
               ELSE c
          [] c.kind = "encodeStream" ->
               IF ~j.ok
               THEN [c EXCEPT !.jobs = << >>, !.done = TRUE, !.ok = FALSE, !.err = j.err]
               ELSE streamNextChunk(
                        [c EXCEPT !.i = c.i + 1,
                                  !.acc = Append(c.acc,
                                      [token |-> j.token,
                                       metadata |->
                                           [index |-> c.i,
                                            total |-> IF c.numChunks.inf THEN Infinity
                                                      ELSE c.numChunks.n,
                                            chunkId |-> c.chunkId]])])
          [] c.kind = "decodeStream" ->
               IF ~j.ok
               THEN streamSettled(c, Told(Fail(j.err, NoData), -1, -1, -1))
               ELSE IF c.i + 1 < Len(c.list)
               THEN [c EXCEPT !.i = c.i + 1, !.acc = Append(c.acc, Ok(j.data)),
                              !.jobs = << decodeJob(c.list[c.i + 2].token, c.secret) >>]
               ELSE streamSettled([c EXCEPT !.i = c.i + 1], 
                                  reassemble(Append(c.acc, Ok(j.data))))

\* Job k of the call goes on to its next await: [call, rng, seal].
stepCall(c, k, now, rng, sealed, env) ==
    CHOOSE next \in
        {[call |-> IF r.job.pc = "done"
                   THEN afterJob([c EXCEPT !.jobs[k] = r.job], k)
                   ELSE [c EXCEPT !.jobs[k] = r.job],
          rng |-> r.rng, seal |-> r.seal] :
            r \in {stepJob(c.jobs[k], now, rng, sealed, env)}} : TRUE

(***************************************************************************)
(* State                                                                   *)
(***************************************************************************)
VARIABLES
    env,     \* the runtime: "node", "browser" or "legacy"
    clock,   \* Date.now(), in milliseconds
    rng,     \* the number of draws made from the random source
    sealed,  \* the encryptions made so far (the cipher's memory)
    tok,     \* the token in the caller's hands; << >> when there is none
    src,     \* how tok came about: the encode call behind it and what was done to it
    out,     \* the last call and its outcome
    streams, \* the encodeStream calls made: [data, secret, chunkSize, t0, chunks]
    wire,    \* the chunk list being assembled: pairs << stream, chunk >> (1-based)
    batch,   \* the tokens collected for rotateKeys: [token, data, secret]
    calls    \* the calls started and not yet looked at: their position and locals

vars == << env, clock, rng, sealed, tok, src, out, streams, wire, batch, calls >>

\* kind is "none", "failed" (encode threw), "encoded" or "rotated"; flip is
\* << >>, the << byte, bit >> that was flipped in tok, or the << n >> of the
\* n bytes tok was cut down to; meta0 is the metadata of the token that was
\* given to rotateKey.
NoSrc ==
    [kind |-> "none", data |-> NoData, secret |-> NoSecret, options |-> NoOptions,
     t0 |-> 0, old |-> NoSecret, flip |-> << >>, meta0 |-> NoMetadata]

\* token is the token passed in (decode, validateToken, extractMetadata) or
\* returned (encode, rotateKey); was is the secret the token passed to
\* rotateKey was made under; options are those of encode and rotateKey; picks
\* is the chunk list passed to decodeStream; secrets, keyIndex, tried, count
\* and errors are the argument and the outcome of decodeWithKeyFallback;
\* tokens is the list rotateKeys returned; bytes is what packMetadata or
\* decrypt returned or the ciphertext encrypt returned, size what
\* getMetadataSize returned and unpacked what unpackMetadata returned; salted
\* tells whether decrypt was given a salt; draws and seal are the random draws
\* and the encryptions the call made; expected, got and at are the numbers in
\* the message decodeStream threw; expired is what isExpired returned.
NoOut ==
    [op |-> "none", ok |-> FALSE, err |-> "", data |-> NoData, meta |-> NoMetadata,
     token |-> << >>, secret |-> NoSecret, old |-> NoSecret, was |-> NoSecret,
     options |-> NoOptions, now |-> 0, picks |-> << >>,
     secrets |-> << >>, keyIndex |-> -1, tried |-> << >>, count |-> 0,
     errors |-> << >>, tokens |-> << >>,
     bytes |-> << >>, size |-> 0, unpacked |-> NoMetadata,
     salted |-> FALSE, draws |-> 0, seal |-> {},
     expected |-> -1, got |-> -1, at |-> -1, expired |-> FALSE]

(***************************************************************************)
(* Inputs                                                                  *)
(***************************************************************************)
Runtimes == {"node", "browser", "legacy"}

\* "pw", "px"
PwA == [pw |-> << 112, 119 >>]

PwB == [pw |-> << 112, 120 >>]

KeyA == [raw |-> 1, len |-> 32]

KeyB == [raw |-> 2, len |-> 32]

PwEmpty == [pw |-> << >>]

KeyShort == [raw |-> 3, len |-> 16]

Secrets == {PwA, PwB, KeyA, KeyB, PwEmpty, KeyShort}

\* The secrets encode is called with.
EncodeSecrets == {PwA, KeyA, PwEmpty, KeyShort}

isValidSecret(s) == IF isString(s) THEN Len(s.pw) > 0 ELSE s.len = KEY_LENGTH

\* << oldSecret, newSecret >> of a rotation.
RotationPairs ==
    { << PwA, KeyB >>, << PwA, PwB >>, << KeyA, PwB >>, << KeyA, KeyB >>,
      << PwB, KeyB >>, << PwA, KeyShort >>, << KeyA, PwEmpty >> }

\* 7, {"a":[1,null]}, "a\"b", "hi" and [] in that order.
DataList ==
    << JNum(7),
       JObj(<< [k |-> << 97 >>, v |-> JArr(<< JNum(1), JNull >>)] >>),
       JStr(<< 97, 34, 98 >>),
       JStr(<< 104, 105 >>),
       JArr(<< >>) >>

NumData == 2

Data == {DataList[i] : i \in 1..Min(NumData, Len(DataList))}

CompressionIds == {"none", "brotli", "lz-string", "zlib"}

Compressed(c) == [NoOptions EXCEPT !.compression = c]

\* Date.now() at the start of the run, and the steps it advances by.
StartClocks == {5000}

TickSteps == {200}

MaxTicks == 10

\* ttl in seconds, as limbs.
Ttls == {Undefined, U32(0), U32(1)}

ExpiryOptions ==
    {[NoOptions EXCEPT !.includeTimestamp = b, !.ttl = t] : b \in BOOLEAN, t \in Ttls}

\* [1,null] in chunks of 3, 4 or 8 characters: 3, 2 or 1 chunks.
StreamData == {JArr(<< JNum(1), JNull >>)}

ChunkSizes == {3, 4, 8}

\* The encodeStream calls of a run: a first and a second.
StreamIds == {1, 2}

MaxWire == 3

\* The metadata given to packMetadata: a timestamp in milliseconds as
\* [sec, ms] with the seconds in 32 bits, a ttl in seconds in 32 bits.
TimestampInputs ==
    {Undefined, Millis(0), Millis(999), Millis(5800),
     [sec |-> [hi |-> 1, lo |-> 0], ms |-> 1],
     [sec |-> [hi |-> 33023, lo |-> 510], ms |-> 500],
     [sec |-> [hi |-> 65535, lo |-> 65535], ms |-> 999]}

TtlInputs ==
    {Undefined, U32(0), U32(1), U32(3600),
     [hi |-> 33023, lo |-> 510], [hi |-> 65535, lo |-> 65535]}

MetadataInputs ==
    {[version |-> 1, algorithm |-> "aes-gcm-256", compression |-> c,
      timestamp |-> t, ttl |-> l] :
        c \in CompressionIds, t \in TimestampInputs, l \in TtlInputs}

\* The payloads of one run of the crypto engine, and what is encrypted.
MaxEncryptions == 2

Plaintexts == {<< 1, 2, 3 >>}

\* The options of the tokens whose shape is examined: with and without a
\* timestamp and a ttl, uncompressed.
ShapeOptions ==
    {[NoOptions EXCEPT !.compression = "none", !.includeTimestamp = b, !.ttl = t] :
        b \in BOOLEAN, t \in {Undefined, U32(1)}}

\* The tokens of a batch and the secrets of its rotation.
MaxBatch == 2

BatchSecrets == {PwA, KeyA}

BatchNewSecrets == {PwB, KeyB, KeyShort}

\* The lists of secrets passed to decodeWithKeyFallback: up to three
\* of these, in any order, repeats included.
FallbackSecrets == {PwA, KeyA, KeyB, PwEmpty}

SecretListLengths == 0..3

SecretLists == UNION {[1..n -> FallbackSecrets] : n \in SecretListLengths}

\* The secrets validateKeyRotation is called with.
DryRunOldSecrets == {PwA, KeyA}

DryRunNewSecrets == {PwB, KeyB, PwEmpty, KeyShort}

\* The tokens whose decoding is followed stage by stage: with a timestamp and
\* a ttl of one second, uncompressed or with brotli; the bytes of which a bit
\* is flipped and the lengths they are cut down to.
StageOptions ==
    {[NoOptions EXCEPT !.compression = c, !.includeTimestamp = TRUE, !.ttl = U32(1)] :
        c \in {"none", "brotli"}}

StageBytes == {0, 1, 2, 3, 30}

StageCuts == {3, 10, 20}

\* What a caller writes into the metadata field of a chunk: "x" is the chunk id.
RelabelMetadata ==
    {[index |-> 1, total |-> 3, chunkId |-> << 120 >>],
     [index |-> 0, total |-> 1, chunkId |-> << 120 >>]}

\* The calls in flight at a time, and the rounds of a loop that are followed.
MaxCalls == 2

MaxIterations == 9

\* Chunk sizes, zero and negative ones among them: [1,null] has 8 characters.
LoopChunkSizes == {-3, -1, 0, 3, 4, 8}

\* Hand-made chunks: [1,null] in chunks of 4 characters (2 chunks), and the
\* index and total written into a hand-made chunk.
ForgeChunkSizes == {4}

ForgeIndices == {0, 1}

ForgeTotals == {2, 3}

(***************************************************************************)
(* Actions                                                                 *)
(***************************************************************************)
\* The clock advances.
Tick(d) ==
    /\ \A c \in StartClocks : clock + d <= c + MaxTicks * d
    /\ clock' = clock + d
    /\ UNCHANGED << env, rng, sealed, tok, src, out, streams, wire, batch, calls >>

\* tok = await encode(data, secret, options), the first token of the run.
Encode(data, secret, options) ==
    /\ src.kind = "none"
    /\ \E r \in {encode(data, secret, options, clock, rng, env)} :
           /\ tok' = r.val
           /\ rng' = r.rng
           /\ sealed' = sealed \cup r.seal
           /\ src' = [NoSrc EXCEPT !.kind = IF r.ok THEN "encoded" ELSE "failed",
                                   !.data = data, !.secret = secret,
                                   !.options = options, !.t0 = clock]
           /\ out' = [NoOut EXCEPT !.op = "encode", !.ok = r.ok, !.err = r.err,
                                   !.token = r.val, !.secret = secret,
                                   !.options = options, !.now = clock]
    /\ UNCHANGED << env, clock, streams, wire, batch, calls >>

\* await decode(tok, secret)
Decode(secret) ==
    /\ tok # << >>
    /\ \E r \in {decode(tok, secret, clock, sealed, env)} :
           out' = [NoOut EXCEPT !.op = "decode", !.ok = r.ok, !.err = r.err,
                                !.data = r.val, !.token = tok, !.secret = secret,
                                !.now = clock]
    /\ UNCHANGED << env, clock, rng, sealed, tok, src, streams, wire, batch, calls >>

\* validateToken(tok)
ValidateToken ==
    /\ tok # << >>
    /\ out' = [NoOut EXCEPT !.op = "validateToken", !.ok = validateToken(tok),
                            !.token = tok, !.now = clock]
    /\ UNCHANGED << env, clock, rng, sealed, tok, src, streams, wire, batch, calls >>

\* extractMetadata(tok)
ExtractMetadata ==
    /\ tok # << >>
    /\ \E r \in {extractMetadata(tok)} :
           out' = [NoOut EXCEPT !.op = "extractMetadata", !.ok = r.ok, !.err = r.err,
                                !.meta = r.val, !.token = tok, !.now = clock]
    /\ UNCHANGED << env, clock, rng, sealed, tok, src, streams, wire, batch, calls >>

\* isExpired(tok)
IsExpired ==
    /\ tok # << >>
    /\ \E r \in {isExpired(tok, clock)} :
           out' = [NoOut EXCEPT !.op = "isExpired", !.ok = r.ok, !.err = r.err,
                                !.expired = r.val, !.token = tok, !.now = clock]
    /\ UNCHANGED << env, clock, rng, sealed, tok, src, streams, wire, batch, calls >>

\* Someone on the way flips bit `bit` (0 = least significant) of byte `byte`
\* (0-based) of the token's bytes before anyone has looked at it; one flip
\* per token.
Tamper(byte, bit) ==
    /\ src.kind = "encoded"
    /\ src.flip = << >>
    /\ out.op = "encode"
    /\ LET bytes == decodeBase64Url(tok)
           old == bytes[byte + 1]
           new == IF (old \div Pow2(bit)) % 2 = 1 THEN old - Pow2(bit) ELSE old + Pow2(bit)
       IN  /\ byte < Len(bytes)
           /\ tok' = encodeBase64Url([bytes EXCEPT ![byte + 1] = new])
    /\ src' = [src EXCEPT !.flip = << byte, bit >>]
    /\ UNCHANGED << env, clock, rng, sealed, out, streams, wire, batch, calls >>

\* The token arrives cut short: only its first n bytes are left.
Truncate(n) ==
    /\ src.kind = "encoded"
    /\ src.flip = << >>
    /\ out.op = "encode"
    /\ LET bytes == decodeBase64Url(tok)
       IN  /\ n < Len(bytes)
           /\ tok' = encodeBase64Url(sliceBytes(bytes, 0, n))
    /\ src' = [src EXCEPT !.flip = << n >>]
    /\ UNCHANGED << env, clock, rng, sealed, out, streams, wire, batch, calls >>

\* tok = await rotateKey(tok, oldSecret, newSecret, options): on success the
\* caller holds the new token, on failure it still holds the old one.
RotateKey(oldSecret, newSecret, options) ==
    /\ src.kind = "encoded"
    /\ \E r \in {rotateKey(tok, oldSecret, newSecret, options, clock, rng, sealed, env)} :
           /\ tok' = IF r.ok THEN r.val ELSE tok
           /\ rng' = r.rng
           /\ sealed' = sealed \cup r.seal
           /\ src' = IF r.ok
                     THEN [src EXCEPT !.kind = "rotated", !.secret = newSecret,
                                      !.options = options, !.t0 = clock,
                                      !.old = oldSecret,
                                      !.meta0 = unpackMetadata(decodeBase64Url(tok)).val]
                     ELSE src
           /\ out' = [NoOut EXCEPT !.op = "rotateKey", !.ok = r.ok, !.err = r.err,
                                   !.token = r.val, !.secret = newSecret,
                                   !.old = oldSecret, !.was = src.secret,
                                   !.options = options, !.now = clock]
    /\ UNCHANGED << env, clock, streams, wire, batch, calls >>

\* await decodeWithKeyFallback(tok, secrets), the last call of the run.
DecodeWithKeyFallback(secrets) ==
    /\ tok # << >>
    /\ out.op # "decodeWithKeyFallback"
    /\ \E r \in {decodeWithKeyFallback(tok, secrets, clock, sealed, env, 0,
                                        NoneDecoded(secrets))} :
           out' = [NoOut EXCEPT !.op = "decodeWithKeyFallback", !.ok = r.ok,
                                !.err = r.err, !.data = r.val, !.token = tok,
                                !.secrets = secrets, !.keyIndex = r.keyIndex,
                                !.tried = r.tried, !.count = r.count,
                                !.errors = r.errors, !.now = clock]
    /\ UNCHANGED << env, clock, rng, sealed, tok, src, streams, wire, batch, calls >>

\* await validateKeyRotation(tok, oldSecret, newSecret), the last call of the
\* run.
ValidateKeyRotation(oldSecret, newSecret) ==
    /\ tok # << >>
    /\ out.op # "validateKeyRotation"
    /\ \E r \in {validateKeyRotation(tok, oldSecret, newSecret, clock, rng, sealed, env)} :
           /\ rng' = r.rng
           /\ sealed' = sealed \cup r.seal
           /\ out' = [NoOut EXCEPT !.op = "validateKeyRotation", !.ok = r.val,
                                   !.token = tok, !.secret = newSecret,
                                   !.old = oldSecret, !.now = clock]
    /\ UNCHANGED << env, clock, tok, src, streams, wire, batch, calls >>

\* packMetadata(out.meta)
PackMetadata ==
    /\ out.op = "metadata"
    /\ \E r \in {packMetadata(out.meta)} :
           out' = [out EXCEPT !.op = "packMetadata", !.ok = r.ok, !.err = r.err,
                              !.bytes = r.val]
    /\ UNCHANGED << env, clock, rng, sealed, tok, src, streams, wire, batch, calls >>

\* getMetadataSize(out.meta)
GetMetadataSize ==
    /\ out.op = "packMetadata"
    /\ out' = [out EXCEPT !.op = "getMetadataSize", !.size = getMetadataSize(out.meta)]
    /\ UNCHANGED << env, clock, rng, sealed, tok, src, streams, wire, batch, calls >>

\* unpackMetadata(out.bytes) of the bytes packMetadata returned.
UnpackMetadata ==
    /\ out.op = "getMetadataSize"
    /\ \E r \in {unpackMetadata(out.bytes)} :
           out' = [out EXCEPT !.op = "unpackMetadata", !.ok = r.ok, !.err = r.err,
                              !.unpacked = r.val]
    /\ UNCHANGED << env, clock, rng, sealed, tok, src, streams, wire, batch, calls >>

\* await encrypt(plaintext, secret)
Encrypt(plaintext, secret) ==
    /\ Cardinality(sealed) < MaxEncryptions
    /\ \E r \in {encrypt(plaintext, secret, rng)} :
           /\ rng' = r.rng
           /\ sealed' = sealed \cup r.seal
           /\ out' = [NoOut EXCEPT !.op = "encrypt", !.ok = r.ok, !.err = r.err,
                                   !.secret = secret, !.bytes = r.ciphertext,
                                   !.draws = r.rng - rng, !.seal = r.seal,
                                   !.now = clock]
    /\ UNCHANGED << env, clock, tok, src, streams, wire, batch, calls >>

\* await decrypt({ iv, ciphertext }, secret, salt) of a payload e that encrypt
\* returned; the salt is the payload's (any 16 bytes when it has none) or is
\* left out.
Decrypt(e, secret, withSalt) ==
    /\ e \in sealed
    /\ LET salt == IF ~withSalt THEN << >>
                   ELSE IF "kdf" \in DOMAIN e.key THEN e.key.kdf[2]
                   ELSE randomBytes(SALT_LENGTH, 0)
       IN  \E r \in {decrypt(e.iv, e.ct, secret, salt, withSalt, sealed)} :
               out' = [NoOut EXCEPT !.op = "decrypt", !.ok = r.ok, !.err = r.err,
                                    !.secret = secret, !.bytes = r.val,
                                    !.salted = withSalt, !.now = clock]
    /\ UNCHANGED << env, clock, rng, sealed, tok, src, streams, wire, batch, calls >>

\* batch.push(await encode(data, secret)): one more token for rotateKeys.
Collect(data, secret) ==
    /\ out.op # "rotateKeys"
    /\ Len(batch) < MaxBatch
    /\ \E r \in {encode(data, secret, NoEncodeOptions, clock, rng, env)} :
           /\ r.ok
           /\ rng' = r.rng
           /\ sealed' = sealed \cup r.seal
           /\ batch' = Append(batch, [token |-> r.val, data |-> data, secret |-> secret])
    /\ UNCHANGED << env, clock, tok, src, out, streams, wire, calls >>

\* The tokens of the batch.
TokensOf(b) == [i \in 1..Len(b) |-> b[i].token]

\* await rotateKeys(batch, oldSecret, newSecret), the last call of the run.
\* When several rotations are rejected the call is rejected with the error of
\* any one of them (the first to be rejected).
RotateKeys(oldSecret, newSecret) ==
    /\ out.op # "rotateKeys"
    /\ \E r \in {rotateKeys(TokensOf(batch), oldSecret, newSecret, NoEncodeOptions,
                             clock, rng, sealed, env)} :
           /\ rng' = r.rng
           /\ sealed' = sealed \cup r.seal
           /\ \E e \in IF r.errs = {} THEN {""} ELSE r.errs :
                  out' = [NoOut EXCEPT !.op = "rotateKeys", !.ok = (r.errs = {}),
                                       !.err = e,
                                       !.tokens = IF r.errs = {} THEN r.val ELSE << >>,
                                       !.secret = newSecret, !.old = oldSecret,
                                       !.now = clock]
    /\ UNCHANGED << env, clock, tok, src, streams, wire, batch, calls >>

\* chunks = await encodeStream(data, secret, {}, chunkSize)
EncodeStream(data, secret, chunkSize) ==
    /\ out.op # "decodeStream"
    /\ Len(streams) < Cardinality(StreamIds)
    /\ \E r \in {encodeStream(data, secret, NoOptions, chunkSize, clock, rng, env)} :
           /\ rng' = r.rng
           /\ sealed' = sealed \cup r.seal
           /\ streams' = IF r.ok
                         THEN Append(streams, [data |-> data, secret |-> secret,
                                               chunkSize |-> chunkSize, t0 |-> clock,
                                               chunks |-> r.val])
                         ELSE streams
           /\ out' = [NoOut EXCEPT !.op = "encodeStream", !.ok = r.ok, !.err = r.err,
                                   !.secret = secret, !.now = clock]
    /\ UNCHANGED << env, clock, tok, src, wire, batch, calls >>

\* The caller adds chunk i of stream s to the list it will pass to
\* decodeStream.
Put(s, i) ==
    /\ out.op # "decodeStream"
    /\ Len(wire) < MaxWire
    /\ s <= Len(streams)
    /\ i <= Len(streams[s].chunks)
    /\ wire' = Append(wire, << s, i >>)
    /\ UNCHANGED << env, clock, rng, sealed, tok, src, out, streams, batch, calls >>

\* The caller holds the secret of stream s and builds a chunk by hand, as the
\* tests do: encode({ data, meta: { index, total, chunkId } }, secret) with
\* the text and the chunk id of chunk i of stream s but an index and a total
\* of its own, and adds it to the list: an entry << s, i, chunk >>.  One such
\* chunk per list.
ForgeChunk(s, i, index, total) ==
    /\ out.op # "decodeStream"
    /\ Len(wire) < MaxWire
    /\ s <= Len(streams)
    /\ i <= Len(streams[s].chunks)
    /\ \A k \in 1..Len(wire) : Len(wire[k]) = 2
    /\ LET st == streams[s]
           json == JSONstringify(st.data)
           chunkData == sliceBytes(json, (i - 1) * st.chunkSize,
                                   Min(i * st.chunkSize, Len(json)))
           meta == [index |-> index, total |-> total,
                    chunkId |-> st.chunks[i].metadata.chunkId]
       IN  \E r \in {encode(chunkPayload(chunkData, index, total, meta.chunkId),
                             st.secret, NoOptions, clock, rng, env)} :
               /\ r.ok
               /\ rng' = r.rng
               /\ sealed' = sealed \cup r.seal
               /\ wire' = Append(wire, << s, i, [token |-> r.val, metadata |-> meta] >>)
    /\ UNCHANGED << env, clock, tok, src, out, streams, batch, calls >>

\* The caller rewrites the metadata field of entry k of the list and leaves
\* its token alone; one rewritten entry per list.
Relabel(k, metadata) ==
    /\ out.op # "decodeStream"
    /\ k <= Len(wire)
    /\ \A j \in 1..Len(wire) : Len(wire[j]) = 2
    /\ wire' = [wire EXCEPT ![k] =
                   << wire[k][1], wire[k][2],
                      [token |-> streams[wire[k][1]].chunks[wire[k][2]].token,
                       metadata |-> metadata] >>]
    /\ UNCHANGED << env, clock, rng, sealed, tok, src, out, streams, batch, calls >>

\* The chunk an entry of the list names.
ChunkOf(pick) ==
    IF Len(pick) = 3 THEN pick[3] ELSE streams[pick[1]].chunks[pick[2]]

\* The chunks that `picks` names.
ChunksOf(picks) == [k \in 1..Len(picks) |-> ChunkOf(picks[k])]

\* await decodeStream(wire, secret), the last call of the run.
DecodeStream(secret) ==
    /\ out.op # "decodeStream"
    /\ \E r \in {decodeStream(ChunksOf(wire), secret, clock, sealed, env)} :
           out' = [NoOut EXCEPT !.op = "decodeStream", !.ok = r.ok, !.err = r.err,
                                !.data = r.val, !.secret = secret, !.now = clock,
                                !.picks = wire, !.expected = r.expected,
                                !.got = r.got, !.at = r.at]
    /\ UNCHANGED << env, clock, rng, sealed, tok, src, streams, wire, batch, calls >>

\* encode is called and runs to its first await.
StartEncode(data, secret, options) ==
    /\ Len(calls) < MaxCalls
    /\ calls' = Append(calls, callEncode(data, secret, options))
    /\ UNCHANGED << env, clock, rng, sealed, tok, src, out, streams, wire, batch >>

\* decode is called with token k of the batch.
StartDecode(k, secret) ==
    /\ Len(calls) < MaxCalls
    /\ k <= Len(batch)
    /\ calls' = Append(calls, callDecode(batch[k].token, secret))
    /\ UNCHANGED << env, clock, rng, sealed, tok, src, out, streams, wire, batch >>

\* rotateKey is called with token k of the batch.
StartRotateKey(k, oldSecret, newSecret) ==
    /\ Len(calls) < MaxCalls
    /\ k <= Len(batch)
    /\ calls' = Append(calls, callRotateKey(batch[k].token, oldSecret, newSecret,
                                            NoOptions))
    /\ UNCHANGED << env, clock, rng, sealed, tok, src, out, streams, wire, batch >>

\* rotateKeys is called with the tokens of the batch.
StartRotateKeys(oldSecret, newSecret) ==
    /\ Len(calls) < MaxCalls
    /\ calls' = Append(calls, callRotateKeys(AsTuple(TokensOf(batch)), oldSecret,
                                             newSecret, NoOptions))
    /\ UNCHANGED << env, clock, rng, sealed, tok, src, out, streams, wire, batch >>

\* decodeStream is called with the chunks of stream s.
StartDecodeStream(s, secret) ==
    /\ Len(calls) < MaxCalls
    /\ s <= Len(streams)
    /\ calls' = Append(calls, callDecodeStream(streams[s].chunks, secret))
    /\ UNCHANGED << env, clock, rng, sealed, tok, src, out, streams, wire, batch >>

\* encodeStream is called and runs to its first await.
StartEncodeStream(data, secret, chunkSize) ==
    /\ Len(calls) < MaxCalls
    /\ calls' = Append(calls, callEncodeStream(data, secret, NoOptions, chunkSize,
                                               clock, rng))
    /\ rng' = rng + 1
    /\ UNCHANGED << env, clock, sealed, tok, src, out, streams, wire, batch >>

\* Calls that keep the bytes in hand in one buffer of the module: a resumed
\* job finds there what the call started last has put in.
GoSharedBuffer(n, k) ==
    /\ n <= Len(calls)
    /\ k <= Len(calls[n].jobs)
    /\ calls[n].jobs[k].pc # "done"
    /\ calls[n].i < MaxIterations
    /\ \E r \in {stepCall([calls[n] EXCEPT !.jobs[k].bytes =
                              IF Len(calls[Len(calls)].jobs) > 0
                              THEN calls[Len(calls)].jobs[1].bytes
                              ELSE calls[n].jobs[k].bytes],
                          k, clock, rng, sealed, env)} :
           /\ calls' = [calls EXCEPT ![n] = r.call]
           /\ rng' = r.rng
           /\ sealed' = sealed \cup r.seal
    /\ UNCHANGED << env, clock, tok, src, out, streams, wire, batch >>

\* The event loop resumes job k of call n, which runs to its next await.
\* A loop that has gone round MaxIterations times is followed no further.
Go(n, k) ==
    /\ n <= Len(calls)
    /\ k <= Len(calls[n].jobs)
    /\ calls[n].jobs[k].pc # "done"
    /\ calls[n].i < MaxIterations
    /\ \E r \in {stepCall(calls[n], k, clock, rng, sealed, env)} :
           /\ calls' = [calls EXCEPT ![n] = r.call]
           /\ rng' = r.rng
           /\ sealed' = sealed \cup r.seal
    /\ UNCHANGED << env, clock, tok, src, out, streams, wire, batch >>

(***************************************************************************)
(* Specifications                                                          *)
(***************************************************************************)
Init ==
    /\ env \in Runtimes
    /\ clock \in StartClocks
    /\ rng = 0
    /\ sealed = {}
    /\ tok = << >>
    /\ src = NoSrc
    /\ out = NoOut
    /\ streams = << >>
    /\ wire = << >>
    /\ batch = << >>
    /\ calls = << >>

\* The pipeline: one encode, then decodes and rotations under any secrets.
Next ==
    \/ \E d \in Data, s \in EncodeSecrets, c \in CompressionIds \cup {"undefined"} :
          Encode(d, s, Compressed(c))
    \/ \E s \in Secrets : Decode(s)
    \/ \E p \in RotationPairs, c \in {"undefined", "zlib"} :
          RotateKey(p[1], p[2], Compressed(c))

Spec == Init /\ [][Next]_vars

\* Expiry: a token with or without a timestamp and a ttl, decoded as time passes.
NextExpiry ==
    \/ \E d \in TickSteps : Tick(d)
    \/ \E o \in ExpiryOptions : Encode(DataList[1], KeyA, o)
    \/ \E s \in {KeyA, KeyB} : Decode(s)

SpecExpiry == Init /\ [][NextExpiry]_vars

\* Tampering: a token has one bit flipped on the way and is then examined.
NextTamper ==
    \/ \E t \in {U32(1), U32(2)} :
          Encode(DataList[1], PwA, [NoOptions EXCEPT !.includeTimestamp = TRUE, !.ttl = t])
    \/ \E byte \in 0..80, bit \in 0..7 : Tamper(byte, bit)
    \/ \E s \in {PwA, PwB, KeyA} : Decode(s)
    \/ ValidateToken
    \/ ExtractMetadata

SpecTamper == Init /\ [][NextTamper]_vars

\* Streaming: up to two encodeStream calls, and chunk lists put
\* together from their chunks in any order.
NextStream ==
    \/ \E d \in StreamData, s \in {KeyA}, c \in ChunkSizes : EncodeStream(d, s, c)
    \/ \E s \in StreamIds, i \in 1..8 : Put(s, i)
    \/ \E s \in {KeyA, KeyB} : DecodeStream(s)

SpecStream == Init /\ [][NextStream]_vars

\* Key fallback: a token decoded with a list of candidate secrets.
NextFallback ==
    \/ \E d \in Data, s \in {PwA, KeyA} : Encode(d, s, NoOptions)
    \/ \E l \in SecretLists : DecodeWithKeyFallback(AsTuple(l))

SpecFallback == Init /\ [][NextFallback]_vars

\* Dry run of a rotation: a token, intact or with a bit flipped, with or
\* without a ttl, is tried for rotation as time passes.
NextDryRun ==
    \/ \E d \in TickSteps : Tick(d) /\ out.op # "validateKeyRotation"
    \/ \E s \in DryRunOldSecrets, t \in {Undefined, U32(1)} :
          Encode(DataList[1], s, [NoOptions EXCEPT !.includeTimestamp = TRUE, !.ttl = t])
    \/ \E byte \in {0, 30}, bit \in {1} : Tamper(byte, bit)
    \/ \E o \in DryRunOldSecrets, n \in DryRunNewSecrets : ValidateKeyRotation(o, n)

SpecDryRun == Init /\ [][NextDryRun]_vars

\* The metadata packer on its own: a metadata record is packed, measured and
\* unpacked.
InitMetadata ==
    /\ env \in Runtimes
    /\ clock \in StartClocks
    /\ rng = 0
    /\ sealed = {}
    /\ tok = << >>
    /\ src = NoSrc
    /\ \E m \in MetadataInputs : out = [NoOut EXCEPT !.op = "metadata", !.meta = m]
    /\ streams = << >>
    /\ wire = << >>
    /\ batch = << >>
    /\ calls = << >>

NextMetadata ==
    \/ PackMetadata
    \/ GetMetadataSize
    \/ UnpackMetadata

SpecMetadata == InitMetadata /\ [][NextMetadata]_vars

\* The crypto engine on its own: encrypt and decrypt called directly.
NextCrypto ==
    \/ \E p \in Plaintexts, s \in Secrets : Encrypt(p, s)
    \/ \E e \in sealed, s \in Secrets, w \in BOOLEAN : Decrypt(e, s, w)

SpecCrypto == Init /\ [][NextCrypto]_vars

\* Expiry seen twice: a token is decoded and asked for its expiry as time
\* passes.
NextAgree ==
    \/ \E d \in TickSteps : Tick(d)
    \/ \E o \in ExpiryOptions : Encode(DataList[1], KeyA, o)
    \/ Decode(KeyA)
    \/ IsExpired

SpecAgree == Init /\ [][NextAgree]_vars

\* Rotation of a token with a ttl: the token is rotated at some time before
\* it expires and the new token is decoded as time passes.
NextRenew ==
    \/ \E d \in TickSteps : Tick(d) /\ src.kind # "none"
    \/ \E t \in {U32(1), U32(2)} :
          Encode(DataList[1], KeyA, [NoOptions EXCEPT !.includeTimestamp = TRUE, !.ttl = t])
    \/ \E n \in {KeyB, PwB} : RotateKey(KeyA, n, NoOptions)
    \/ \E s \in {KeyA, KeyB, PwB} : Decode(s)

SpecRenew == Init /\ [][NextRenew]_vars

\* Rewritten chunk metadata: chunk lists put together from the chunks of
\* encodeStream calls, one of them with its metadata field rewritten.
NextRelabel ==
    \/ \E d \in StreamData, s \in {KeyA}, c \in ForgeChunkSizes :
           Len(streams) = 0 /\ EncodeStream(d, s, c)
    \/ \E s \in StreamIds, i \in 1..8 : Put(s, i)
    \/ \E k \in 1..MaxWire, m \in RelabelMetadata : Relabel(k, m)
    \/ \E s \in {KeyA, KeyB} : DecodeStream(s)

SpecRelabel == Init /\ [][NextRelabel]_vars

\* The loop of encodeStream: one call at a time, followed await by await.
NextLoop ==
    \/ \E d \in StreamData, s \in {KeyA, PwA}, c \in LoopChunkSizes :
           Len(calls) = 0 /\ StartEncodeStream(d, s, c)
    \/ \E n \in 1..MaxCalls, k \in 1..MaxBatch : Go(n, k)

SpecLoop == Init /\ [][NextLoop]_vars

\* Calls side by side: once a batch of tokens and a stream are there, calls
\* are started at any time and resumed in any order.
NextCalls ==
    \/ \E d \in Data, s \in {KeyA} :
           /\ Len(streams) = 0
           /\ d = DataList[Min(Len(batch) + 1, Len(DataList))]
           /\ Collect(d, s)
    \/ \E d \in StreamData, s \in {KeyA}, c \in ForgeChunkSizes :
           Len(batch) = MaxBatch /\ Len(streams) = 0 /\ EncodeStream(d, s, c)
    \/ \E d \in Data, s \in {KeyA, PwA} :
           Len(streams) = 1 /\ d = DataList[1] /\ StartEncode(d, s, NoOptions)
    \/ \E k \in 1..MaxBatch, s \in {KeyA, KeyB} : Len(streams) = 1 /\ StartDecode(k, s)
    \/ \E k \in 1..MaxBatch : Len(streams) = 1 /\ StartRotateKey(k, KeyA, KeyB)
    \/ Len(streams) = 1 /\ StartRotateKeys(KeyA, KeyB)
    \/ \E d \in StreamData, s \in {KeyA}, c \in ForgeChunkSizes :
           Len(streams) = 1 /\ StartEncodeStream(d, s, c)
    \/ \E s \in StreamIds : Len(streams) = 1 /\ StartDecodeStream(s, KeyA)
    \/ \E n \in 1..MaxCalls, k \in 1..MaxBatch : Go(n, k)

SpecCalls == Init /\ [][NextCalls]_vars

\* Stages: a token with a ttl, intact, with a bit flipped or cut short, is
\* decoded under the right and under wrong secrets after some time has passed.
NextStages ==
    \/ \E d \in TickSteps : Tick(d) /\ out.op = "encode"
    \/ \E o \in StageOptions : Encode(DataList[1], KeyA, o)
    \/ \E byte \in StageBytes, bit \in 0..7 : Tamper(byte, bit)
    \/ \E n \in StageCuts : Truncate(n)
    \/ \E s \in {KeyA, KeyB, PwA} : Decode(s)

SpecStages == Init /\ [][NextStages]_vars

\* Shape: a token, intact, with a header bit flipped or cut short, is
\* validated and decoded.
NextShape ==
    \/ \E s \in {PwA, KeyA}, o \in ShapeOptions : Encode(DataList[1], s, o)
    \/ \E byte \in 0..3, bit \in 0..7 : Tamper(byte, bit)
    \/ \E n \in 0..60 : Truncate(n)
    \/ ValidateToken
    \/ \E s \in {PwA, KeyA} : Decode(s)

SpecShape == Init /\ [][NextShape]_vars

\* Batch rotation: tokens are collected and rotated in one call.
NextBatch ==
    \/ \E d \in Data, s \in BatchSecrets : Collect(d, s)
    \/ \E o \in BatchSecrets, n \in BatchNewSecrets : RotateKeys(o, n)

SpecBatch == Init /\ [][NextBatch]_vars

\* Hand-made chunks: chunk lists put together from the chunks of encodeStream
\* calls and one chunk built by hand under the same secret.
NextForge ==
    \/ \E d \in StreamData, s \in {KeyA}, c \in ForgeChunkSizes : EncodeStream(d, s, c)
    \/ \E s \in StreamIds, i \in 1..8 : Put(s, i)
    \/ \E s \in StreamIds, i \in 1..8, index \in ForgeIndices, total \in ForgeTotals :
          ForgeChunk(s, i, index, total)
    \/ \E s \in {KeyA} : DecodeStream(s)

SpecForge == Init /\ [][NextForge]_vars

(***************************************************************************)
(* Properties                                                              *)
(***************************************************************************)
\* The last call was decode of the token in hand, a token that encode or
\* rotateKey returned (with or without a bit flipped since).
Decoded == out.op = "decode" /\ out.token = tok /\ src.kind \in {"encoded", "rotated"}

\* The metadata stored in the token in hand.
Stored == unpackMetadata(decodeBase64Url(tok)).val

\* C1, as stated: for every data value, every valid secret and every
\* compression id, encode returns a token and decode of that token under the
\* same secret returns the data.
C1_RoundTripEveryCompression ==
    /\ (out.op = "encode" /\ isValidSecret(out.secret)) => out.ok
    /\ (Decoded /\ src.kind = "encoded" /\ out.secret = src.secret)
          => out.ok /\ out.data = src.data

\* C1, amended: with a valid secret encode fails exactly when zlib is asked
\* for outside Node.js; every token it returns, whatever the compression id,
\* decodes under the same secret to the data.
C1_RoundTripAvailableCompression ==
    /\ (out.op = "encode" /\ isValidSecret(out.secret))
          => (out.ok <=> (out.options.compression # "zlib" \/ isNode(env)))
    /\ (Decoded /\ src.kind = "encoded" /\ out.secret = src.secret)
          => out.ok /\ out.data = src.data

\* A token made with zlib (under Node.js) from an object, under a passphrase,
\* has been decoded back to the object.
C1_Witness ==
    /\ Decoded /\ src.kind = "encoded" /\ out.secret = src.secret
    /\ src.options.compression = "zlib" /\ isString(src.secret)
    /\ src.data = DataList[2]
    /\ out.ok /\ out.data = src.data

\* C3: decode of a token under any secret other than the one it was made
\* under fails and returns no data, a secret of the other type included.
C3_WrongKey == (Decoded /\ out.secret # src.secret) => ~out.ok /\ out.data = NoData

\* A token made under a passphrase has been refused under a raw key.
C3_Witness ==
    /\ Decoded /\ src.kind = "encoded"
    /\ src.secret = PwA /\ out.secret = KeyA
    /\ ~out.ok /\ out.data = NoData

\* C8: rotateKey without options succeeds when the old secret is the token's
\* and the new secret is valid; it fails and returns nothing when the old
\* secret does not decode the token or the encode under the new secret fails
\* (an invalid new secret, zlib asked for outside Node.js); the rotated token
\* decodes under the new secret to the data and is refused under the old
\* secret.
C8_Rotation ==
    /\ (out.op = "rotateKey"
          /\ (\/ out.old # out.was
              \/ ~isValidSecret(out.secret)
              \/ (out.options.compression = "zlib" /\ ~isNode(env))))
          => ~out.ok /\ out.token = << >>
    /\ (out.op = "rotateKey" /\ out.old = out.was /\ isValidSecret(out.secret)
          /\ out.options = NoOptions)
          => out.ok /\ out.token = tok
    /\ (Decoded /\ src.kind = "rotated" /\ out.secret = src.secret)
          => out.ok /\ out.data = src.data
    /\ (Decoded /\ src.kind = "rotated" /\ out.secret = src.old) => ~out.ok

\* A token rotated from a passphrase to a raw key has been decoded under the
\* raw key.
C8_Witness ==
    /\ Decoded /\ src.kind = "rotated"
    /\ src.old = PwA /\ src.secret = KeyB /\ out.secret = KeyB
    /\ out.ok /\ out.data = src.data

\* C4, as stated: decode under the right secret fails with the expired-token
\* error exactly when the token stores a timestamp and a ttl and
\* now >= timestamp + ttl * 1000, the instant of equality and a ttl of 0
\* included.
C4_ExpiryRule ==
    (Decoded /\ out.secret = src.secret) =>
        ((~out.ok /\ out.err = "Token has expired")
            <=> /\ Stored.timestamp # Undefined
                /\ Stored.ttl # Undefined
                /\ NowAtOrAfter(out.now, ExpiresAt(Stored.timestamp, Stored.ttl)))

\* A token with a timestamp and a ttl of 1 has been decoded to its data at
\* the very instant timestamp + ttl * 1000.
C4_Witness ==
    /\ Decoded /\ out.secret = src.secret
    /\ Stored.timestamp # Undefined /\ Stored.ttl = U32(1)
    /\ out.now = (src.t0 \div 1000) * 1000 + 1000
    /\ out.ok /\ out.data = src.data

\* C5, as stated: a token made at t0 with a timestamp and a ttl of 1 decodes
\* to the data at every t with t - t0 < 1000 and fails as expired at every t
\* with t - t0 > 1000.
C5_Scenario ==
    (Decoded /\ out.secret = src.secret
        /\ src.options.includeTimestamp /\ src.options.ttl = U32(1)) =>
        /\ (out.now - src.t0 < 1000) => (out.ok /\ out.data = src.data)
        /\ (out.now - src.t0 > 1000) => (~out.ok /\ out.err = "Token has expired")

\* C5, amended: with t0 rounded down to the whole second, the token decodes
\* to the data at every t before that second plus 1000 ms and fails as
\* expired at every t after it.
C5_ScenarioWholeSeconds ==
    (Decoded /\ out.secret = src.secret
        /\ src.options.includeTimestamp /\ src.options.ttl = U32(1)) =>
        LET expiresAt == (src.t0 \div 1000) * 1000 + 1000
        IN  /\ (out.now < expiresAt) => (out.ok /\ out.data = src.data)
            /\ (out.now > expiresAt) => (~out.ok /\ out.err = "Token has expired")

\* A token with a ttl of 1 has been refused as expired less than 1000 ms
\* after it was made.
C5_Witness ==
    /\ Decoded /\ out.secret = src.secret
    /\ src.options.includeTimestamp /\ src.options.ttl = U32(1)
    /\ out.now - src.t0 < 1000
    /\ ~out.ok /\ out.err = "Token has expired"

\* C2, as stated: after any one bit of a token's bytes is flipped, decode
\* under the original secret fails.
C2_TamperDetected == (Decoded /\ src.flip # << >> /\ out.secret = src.secret) => ~out.ok

\* A token whose ttl field had a bit flipped (1 s turned into 129 s) has been
\* decoded to the data under the original secret.
C2_Witness ==
    /\ Decoded /\ out.secret = src.secret
    /\ src.flip = << 11, 7 >>
    /\ Stored.ttl = U32(129)
    /\ out.ok /\ out.data = src.data

\* C6: a token whose version byte is not a supported version is refused by
\* decode under every secret, by validateToken and by extractMetadata; none
\* returns data or metadata.
C6_VersionRejection ==
    (out.op \in {"decode", "validateToken", "extractMetadata"}
        /\ decodeBase64Url(out.token)[1] \notin SUPPORTED_VERSIONS)
        => ~out.ok /\ out.data = NoData /\ out.meta = NoMetadata

\* A token whose version byte was turned from 1 into 3 has been refused by
\* decode under the right secret.
C6_Witness ==
    /\ Decoded /\ out.secret = src.secret
    /\ src.flip = << 0, 1 >>
    /\ decodeBase64Url(out.token)[1] = 3
    /\ ~out.ok /\ out.err = "Invalid token: Unsupported token version"

\* picks names every chunk of stream s exactly once.
IsPermutationOf(picks, s) ==
    /\ Len(picks) = Len(streams[s].chunks)
    /\ \A i \in 1..Len(streams[s].chunks) : \E k \in 1..Len(picks) : picks[k] = << s, i >>

\* C9: decodeStream of the chunks of one encodeStream call, in any order,
\* returns the data.
C9_ChunkReorder ==
    \A s \in 1..Len(streams) :
        (out.op = "decodeStream" /\ out.secret = streams[s].secret
            /\ IsPermutationOf(out.picks, s))
            => out.ok /\ out.data = streams[s].data

\* Three chunks passed in the order 2, 0, 1 have been put together.
C9_Witness ==
    /\ out.op = "decodeStream"
    /\ out.picks = << << 1, 3 >>, << 1, 1 >>, << 1, 2 >> >>
    /\ out.ok /\ out.data = streams[1].data

\* C10: under the streams' secret, the chunks of one encodeStream call of two
\* or more chunks with any one chunk left out fail as incomplete, and a list
\* with chunks of two encodeStream calls fails with the chunk id mismatch.
C10_Completeness ==
    (out.op = "decodeStream" /\ out.picks # << >>
        /\ \A k \in 1..Len(out.picks) : streams[out.picks[k][1]].secret = out.secret) =>
        /\ \A s \in 1..Len(streams) : \A i \in 1..Len(streams[s].chunks) :
              (/\ Len(streams[s].chunks) >= 2
               /\ Len(out.picks) = Len(streams[s].chunks) - 1
               /\ \A j \in 1..Len(streams[s].chunks) :
                     j # i => \E k \in 1..Len(out.picks) : out.picks[k] = << s, j >>)
              => ~out.ok /\ out.err = "Incomplete chunks"
        /\ (\E j, k \in 1..Len(out.picks) : out.picks[j][1] # out.picks[k][1])
              => ~out.ok /\ out.err = "Chunk ID mismatch: chunks are from different streams"

\* Chunk 0 of one two-chunk stream and chunk 1 of another have been refused
\* for their chunk ids.
C10_Witness ==
    /\ out.op = "decodeStream" /\ out.secret = KeyA
    /\ out.picks = << << 1, 1 >>, << 2, 2 >> >>
    /\ Len(streams[1].chunks) = 2 /\ Len(streams[2].chunks) = 2
    /\ ~out.ok /\ out.err = "Chunk ID mismatch: chunks are from different streams"

\* The metadata of the chunks of a list: what decodeStream finds in them.
MetaOfPicks(picks) == [k \in 1..Len(picks) |-> ChunkOf(picks[k]).metadata]

\* A valid stream: one chunk id, every total equal to the number of chunks,
\* and the indices exactly 0..total-1.
IsValidStream(picks) ==
    LET m == MetaOfPicks(picks)
    IN  /\ Len(picks) > 0
        /\ \A k \in 1..Len(picks) : m[k].chunkId = m[1].chunkId
        /\ \A k \in 1..Len(picks) : m[k].total = Len(picks)
        /\ \A i \in 0..(Len(picks) - 1) : \E k \in 1..Len(picks) : m[k].index = i

\* C11, as stated: decodeStream returns data only for a valid stream; for
\* every other chunk list it fails.
C11_StreamValidity ==
    (out.op = "decodeStream" /\ out.ok) => IsValidStream(out.picks)

\* Chunk 0 of a two-chunk stream and a hand-made chunk with index 1 and total
\* 3 have been put together to the data.
C11_Witness ==
    /\ out.op = "decodeStream"
    /\ Len(out.picks) = 2
    /\ out.picks[1] = << 1, 1 >>
    /\ Len(out.picks[2]) = 3
    /\ out.picks[2][3].metadata.index = 1
    /\ out.picks[2][3].metadata.total = 3
    /\ out.ok /\ out.data = streams[1].data

\* What decode(token, secrets[i]) gives for each secret of the list passed to
\* decodeWithKeyFallback (1-based).
DecodeUnderEach ==
    AsTuple([i \in 1..Len(out.secrets) |->
                decode(out.token, out.secrets[i], out.now, sealed, env)])

\* C12: when some secret of the list decodes the token, decodeWithKeyFallback
\* returns the data and the index of the first such secret; decode was called
\* in array order and for no secret after that index.
C12_FallbackOrder ==
    (out.op = "decodeWithKeyFallback") =>
        \E u \in {DecodeUnderEach} :
            /\ out.ok <=> \E i \in 1..Len(u) : u[i].ok
            /\ out.ok =>
                  /\ out.keyIndex \in 0..(Len(u) - 1)
                  /\ u[out.keyIndex + 1].ok
                  /\ out.data = u[out.keyIndex + 1].val
                  /\ \A i \in 1..out.keyIndex : ~u[i].ok
                  /\ \A j, k \in 1..Len(out.tried) : j < k => out.tried[j] < out.tried[k]
                  /\ out.tried # << >> /\ out.tried[Len(out.tried)] = out.keyIndex

\* Of three secrets the second and the third both decode the token: the
\* second was returned and the third never tried.
C12_Witness ==
    /\ out.op = "decodeWithKeyFallback"
    /\ out.secrets = << KeyB, KeyA, KeyA >>
    /\ src.secret = KeyA
    /\ out.ok /\ out.keyIndex = 1 /\ out.tried = << 0, 1 >>
    /\ out.data = src.data

\* C13, as stated: when no secret decodes the token, the error reports as
\* many keys as were supplied and carries one failure message per supplied
\* secret, in order, and no data is returned.
C13_FallbackExhausted ==
    (out.op = "decodeWithKeyFallback" /\ ~out.ok) =>
        /\ out.data = NoData
        /\ out.count = Len(out.secrets)
        /\ Len(out.errors) = Len(out.secrets)
        /\ \E u \in {DecodeUnderEach} : \A i \in 1..Len(u) : out.errors[i] = u[i].err

\* An empty passphrase and a wrong key were supplied: the error reports two
\* keys and carries one message.
C13_Witness ==
    /\ out.op = "decodeWithKeyFallback"
    /\ out.secrets = << PwEmpty, KeyB >>
    /\ src.secret = KeyA
    /\ ~out.ok /\ out.data = NoData
    /\ out.count = 2 /\ Len(out.errors) = 1

\* The token was stored with a timestamp and a ttl and is past its expiry.
TokenExpired == decodeExpired(Stored, out.now)

\* C15: validateKeyRotation returns true exactly when the decode under the
\* old secret succeeds and the new secret is one encode accepts (the new
\* token then decodes under it); a token with an unsupported version, an
\* expired token, a wrong old secret and an invalid new secret all give
\* false.
C15_DryRun ==
    (out.op = "validateKeyRotation") =>
        /\ out.ok <=> (/\ decode(out.token, out.old, out.now, sealed, env).ok
                       /\ isValidSecret(out.secret))
        /\ (\/ decodeBase64Url(out.token)[1] \notin SUPPORTED_VERSIONS
            \/ TokenExpired
            \/ out.old # src.secret
            \/ ~isValidSecret(out.secret)) => ~out.ok
        /\ (/\ src.flip = << >> /\ ~TokenExpired /\ out.old = src.secret
            /\ isValidSecret(out.secret)) => out.ok

\* A token under a passphrase has passed the dry run for a raw key.
C15_Witness ==
    /\ out.op = "validateKeyRotation"
    /\ src.flip = << >> /\ src.secret = PwA
    /\ out.old = PwA /\ out.secret = KeyB
    /\ out.ok

\* rotateKey of element i of the batch can succeed: the old secret is the
\* token's and the new secret is valid.
Rotatable(i) == batch[i].secret = out.old /\ isValidSecret(out.secret)

\* C14: rotateKeys returns a list exactly when every element can be rotated;
\* the list is as long as the batch and element i decodes under the new
\* secret to the data of token i; when any rotation fails no list is
\* returned; an empty batch gives an empty list.
C14_BatchRotation ==
    (out.op = "rotateKeys") =>
        /\ out.ok <=> \A i \in 1..Len(batch) : Rotatable(i)
        /\ out.ok =>
              /\ Len(out.tokens) = Len(batch)
              /\ \A i \in 1..Len(batch) :
                    \E r \in {decode(out.tokens[i], out.secret, out.now, sealed, env)} :
                        r.ok /\ r.val = batch[i].data
        /\ ~out.ok => out.tokens = << >>
        /\ batch = << >> => out.ok /\ out.tokens = << >>

\* Two tokens with different data have been rotated from a raw key to a
\* passphrase.
C14_Witness ==
    /\ out.op = "rotateKeys"
    /\ Len(batch) = 2 /\ batch[1].data # batch[2].data
    /\ out.old = KeyA /\ out.secret = PwB
    /\ out.ok /\ Len(out.tokens) = 2

\* The bytes of the token in hand.
TokenBytes == decodeBase64Url(tok)

\* C16: validateToken returns true exactly for a token whose bytes hold a
\* header of a supported version, the known algorithm id and a known
\* compression id, and are at least as long as the metadata the flags
\* announce plus 12 bytes of IV and 16 bytes of ciphertext; every token that
\* encode returned validates.  (Tokens are texts over the base64url
\* alphabet.)
C16_ValidateToken ==
    (out.op = "validateToken" /\ out.token = tok) =>
        \E b \in {TokenBytes} :
            /\ out.ok <=>
                  /\ Len(b) >= 4
                  /\ b[1] \in SUPPORTED_VERSIONS
                  /\ b[2] = 1
                  /\ b[3] \in 0..3
                  /\ Len(b) >= 4 + (IF b[4] % 2 = 1 THEN 4 ELSE 0)
                                 + (IF (b[4] \div 2) % 2 = 1 THEN 4 ELSE 0) + 12 + 16
            /\ (src.kind = "encoded" /\ src.flip = << >>) => out.ok
            /\ out.data = NoData /\ out.meta = NoMetadata

\* A token cut down to its metadata, IV and 16 more bytes, too short to be
\* decrypted under its passphrase, has been found valid.
C16_Witness ==
    /\ out.op = "validateToken" /\ out.token = tok
    /\ isString(src.secret)
    /\ src.flip = << getMetadataSize(Stored) + 12 + 16 >>
    /\ out.ok

C20_GenericFailure ==
    (/\ Decoded
     /\ isValidSecret(out.secret)
     /\ \/ src.flip = << >> /\ out.secret # src.secret
        \/ Len(src.flip) = 2 /\ src.flip[1] >= getMetadataSize(Stored))
        => /\ ~out.ok
           /\ out.err = "Decryption failed: Decryption failed: invalid key or corrupted data"
           /\ out.data = NoData

\* A token whose last byte (in the tag) had a bit flipped has been refused
\* under its own passphrase with the generic message.
C20_Witness ==
    /\ Decoded /\ out.secret = src.secret
    /\ Len(src.flip) = 2 /\ src.flip[1] = Len(TokenBytes) - 1
    /\ ~out.ok
    /\ out.err = "Decryption failed: Decryption failed: invalid key or corrupted data"

\* C18: unpack(pack(m)) is m with the timestamp rounded down to the whole
\* second; flag bit 0 is set exactly when m has a timestamp and bit 1
\* exactly when it has a ttl; the size of m is the length of pack(m), 4 plus
\* 4 for each of the two fields present.
C18_MetadataRoundTrip ==
    (out.op = "unpackMetadata") =>
        /\ out.ok
        /\ out.unpacked =
              [out.meta EXCEPT !.timestamp =
                  IF out.meta.timestamp = Undefined THEN Undefined
                  ELSE [sec |-> out.meta.timestamp.sec, ms |-> 0]]
        /\ out.bytes[4] \in 0..3
        /\ (out.bytes[4] % 2 = 1) <=> (out.meta.timestamp # Undefined)
        /\ ((out.bytes[4] \div 2) % 2 = 1) <=> (out.meta.ttl # Undefined)
        /\ out.size = Len(out.bytes)
        /\ out.size = 4 + (IF out.meta.timestamp # Undefined THEN 4 ELSE 0)
                        + (IF out.meta.ttl # Undefined THEN 4 ELSE 0)

\* A metadata record with a timestamp of 5800 ms and a ttl of 3600 s has been
\* packed into 12 bytes and unpacked with a timestamp of 5000 ms.
C18_Witness ==
    /\ out.op = "unpackMetadata"
    /\ out.meta.timestamp = Millis(5800) /\ out.meta.ttl = U32(3600)
    /\ out.size = 12
    /\ out.unpacked.timestamp = Millis(5000) /\ out.unpacked.ttl = U32(3600)

\* C19: encrypt refuses raw bytes of a length other than 32 with the key
\* length error and an empty passphrase with the empty password error,
\* without drawing a random value or encrypting anything; decrypt refuses a
\* raw key of a wrong length with the key length error and a passphrase
\* without a salt with the salt error; none of them returns a payload or a
\* plaintext.
C19_KeyMaterial ==
    /\ (out.op = "encrypt" /\ ~isString(out.secret) /\ out.secret.len # 32)
          => /\ ~out.ok /\ out.err = "Key must be exactly 32 bytes (256 bits)"
             /\ out.bytes = << >> /\ out.draws = 0 /\ out.seal = {}
    /\ (out.op = "encrypt" /\ isString(out.secret) /\ out.secret.pw = << >>)
          => /\ ~out.ok /\ out.err = "Password cannot be empty"
             /\ out.bytes = << >> /\ out.draws = 0 /\ out.seal = {}
    /\ (out.op = "decrypt" /\ ~isString(out.secret) /\ out.secret.len # 32)
          => /\ ~out.ok /\ out.err = "Key must be exactly 32 bytes (256 bits)"
             /\ out.bytes = << >>
    /\ (out.op = "decrypt" /\ isString(out.secret) /\ ~out.salted)
          => /\ ~out.ok /\ out.err = "Salt is required for password-based decryption"
             /\ out.bytes = << >>

\* The passphrase a payload was encrypted under has been refused by decrypt
\* because no salt came with it.
C19_Witness ==
    /\ out.op = "decrypt"
    /\ out.secret = PwA /\ ~out.salted
    /\ \E e \in sealed : "kdf" \in DOMAIN e.key /\ e.key.kdf[1] = PwA.pw
    /\ ~out.ok /\ out.err = "Salt is required for password-based decryption"

\* C21: encodeStream returns ceil(length / chunkSize) chunks in index order
\* 0..total-1, all with the same chunkId and with total the number of chunks;
\* the token of chunk i decodes on its own to { data, meta } with meta the
\* chunk's metadata and data the characters i*chunkSize up to
\* min((i+1)*chunkSize, length) of the serialized text, and the slices put
\* together in index order are the serialized text.  It is examined when
\* encodeStream has just returned its chunks.
C21_StreamStructure ==
    (out.op = "encodeStream" /\ out.ok) =>
        \E st \in {streams[Len(streams)]} : \E json \in {JSONstringify(st.data)} :
            /\ Len(st.chunks) * st.chunkSize >= Len(json)
            /\ (Len(st.chunks) - 1) * st.chunkSize < Len(json)
            /\ \A i \in 1..Len(st.chunks) :
                  \E c \in {st.chunks[i]} :
                  \E d \in {decode(c.token, st.secret, clock, sealed, env)} :
                      /\ c.metadata.index = i - 1
                      /\ c.metadata.total = Len(st.chunks)
                      /\ c.metadata.chunkId = st.chunks[1].metadata.chunkId
                      /\ d.ok
                      /\ d.val = chunkPayload(
                                     sliceBytes(json, (i - 1) * st.chunkSize,
                                                Min(i * st.chunkSize, Len(json))),
                                     c.metadata.index, c.metadata.total,
                                     c.metadata.chunkId)
            /\ joinData([i \in 1..Len(st.chunks) |->
                            decode(st.chunks[i].token, st.secret, clock, sealed, env).val]
                        \o << >>) = json

\* encodeStream has cut the 8 characters of [1,null] into chunks of 3
\* characters: three chunks, the last of 2 characters.
C21_Witness ==
    /\ out.op = "encodeStream" /\ out.ok
    /\ \E s \in 1..Len(streams) :
          /\ streams[s].chunkSize = 3
          /\ Len(streams[s].chunks) = 3
          /\ Len(JSONstringify(streams[s].data)) = 8

\* C23, as stated: the compression that encode records in the token when it
\* is called without a compression option is the one getDefaultCompression()
\* returns in that runtime.
C23_DefaultIsPreferred ==
    (out.op = "encode" /\ out.ok /\ out.options.compression = "undefined")
        => Stored.compression = getDefaultCompression(env)

\* C23, amended: encode called without a compression option and with a valid
\* secret returns a token that records "brotli" in every runtime, and what it
\* encrypted is what compress(bytes, "brotli") returns there; that is the
\* value of getDefaultCompression() exactly in the runtimes where brotli
\* counts as available (Node.js, or a runtime with CompressionStream).
C23_DefaultIsBrotli ==
    (out.op = "encode" /\ isValidSecret(out.secret)
       /\ out.options.compression = "undefined")
        => /\ out.ok
           /\ Stored.compression = "brotli"
           /\ \E e \in sealed :
                 e.pt = compress(stringToBytes(JSONstringify(src.data)), "brotli", env).val
           /\ (Stored.compression = getDefaultCompression(env))
                 <=> (isNode(env) \/ hasCompressionStream(env))

\* In a runtime with neither Node.js nor CompressionStream encode was called
\* without a compression option and returned a token that records brotli.
C23_Witness ==
    /\ out.op = "encode" /\ out.ok /\ out.options.compression = "undefined"
    /\ env = "legacy"
    /\ getDefaultCompression(env) = "lz-string"
    /\ Stored.compression = "brotli"

\* The bytes of the serialized data of the encode call behind the token.
SrcBytes == stringToBytes(JSONstringify(src.data))

\* C24, as stated: outside Node.js a request for brotli or zlib is served by
\* lz-string on both sides: encode returns a token that records the
\* requested id and holds the lz-string bytes, and decode of it returns the
\* data.
C24_GracefulFallback ==
    /\ (out.op = "encode" /\ isValidSecret(out.secret) /\ ~isNode(env)
          /\ out.options.compression \in {"brotli", "zlib"})
          => /\ out.ok
             /\ Stored.compression = out.options.compression
             /\ \E e \in sealed : e.pt = LZStringCompress(SrcBytes).val
    /\ (Decoded /\ src.kind = "encoded" /\ src.flip = << >> /\ out.secret = src.secret
          /\ ~isNode(env) /\ src.options.compression \in {"brotli", "zlib"})
          => (out.ok /\ out.data = src.data)

\* C24, amended: outside Node.js a request for brotli is served by lz-string
\* on both sides (the token records brotli, holds the lz-string bytes and
\* decodes to the data), while a request for zlib fails on both sides:
\* compress and decompress throw "... is only available in Node.js" and
\* encode returns no token.
C24_BrotliFallbackOnly ==
    /\ (out.op = "encode" /\ isValidSecret(out.secret) /\ ~isNode(env)
          /\ out.options.compression = "brotli")
          => /\ out.ok
             /\ Stored.compression = "brotli"
             /\ \E e \in sealed :
                   /\ e.pt = LZStringCompress(SrcBytes).val
                   /\ decompress(e.pt, "brotli", env) = Ok(SrcBytes)
    /\ (Decoded /\ src.kind = "encoded" /\ src.flip = << >> /\ out.secret = src.secret
          /\ ~isNode(env) /\ src.options.compression = "brotli")
          => (out.ok /\ out.data = src.data)
    /\ (out.op = "encode" /\ isValidSecret(out.secret) /\ ~isNode(env)
          /\ out.options.compression = "zlib")
          => /\ ~out.ok /\ out.token = << >>
             /\ out.err = "Zlib compression is only available in Node.js"
             /\ decompress(zlibDeflate(SrcBytes), "zlib", env)
                   = Fail("Zlib decompression is only available in Node.js", << >>)

\* Outside Node.js a token encoded with brotli has been decoded to its data.
C24_Witness ==
    /\ Decoded /\ src.kind = "encoded" /\ out.secret = src.secret
    /\ ~isNode(env) /\ src.options.compression = "brotli"
    /\ out.ok /\ out.data = src.data
    /\ \E e \in sealed : e.pt = LZStringCompress(SrcBytes).val

\* The stage of decode an error message comes from: 2 the metadata, 3 the
\* length check, 4 the decryption, 5 the decompression, 6 the JSON parse,
\* 7 the expiry check; 0 for no error.
StageOf(err) ==
    CASE err = "" -> 0
      [] err \in {"Invalid token: too short", "Invalid token: Unknown algorithm ID",
                  "Invalid token: Unknown compression ID",
                  "Invalid token: Invalid metadata: too short",
                  "Invalid token: Invalid metadata: missing timestamp bytes",
                  "Invalid token: Invalid metadata: missing TTL bytes",
                  "Invalid token: Unsupported token version"} -> 2
      [] err = "Invalid token: corrupted data" -> 3
      [] err \in {"Decryption failed: Decryption failed: invalid key or corrupted data",
                  "Decryption failed: Key must be exactly 32 bytes (256 bits)",
                  "Decryption failed: Invalid IV length"} -> 4
      [] err \in {"Decompression failed: LZ-String decompression failed",
                  "Decompression failed: InvalidCharacterError",
                  "Decompression failed: Brotli decompression not available in Node.js",
                  "Decompression failed: Zlib decompression not available",
                  "Decompression failed: Zlib decompression is only available in Node.js",
                  "Decompression failed: Unsupported compression algorithm"} -> 5
      [] err = "Invalid token: not valid JSON" -> 6
      [] err = "Token has expired" -> 7
      [] OTHER -> -1

\* C25: decode reports the first stage that fails in the order metadata and
\* version, length check, decryption, decompression, JSON parse, expiry: a
\* token whose bytes do not decrypt under the secret fails with the
\* decryption error whatever its compression id and its age; one that
\* decrypts fails with the decompression error before the parse error, and
\* with the expired-token error only when everything before went well.
C25_StageOrder ==
    (out.op = "decode") =>
        \E b \in {decodeBase64Url(out.token)} :
        \E u \in {unpackMetadata(b)} :
        \E saltLen \in {IF isString(out.secret) THEN 16 ELSE 0} :
        \E off \in {getMetadataSize(u.val) + saltLen} :
        \E dec \in {decrypt(sliceBytes(b, off, off + 12), sliceFrom(b, off + 12),
                             out.secret, sliceBytes(b, off - saltLen, off),
                             isString(out.secret), sealed)} :
        \E dz \in {decompress(dec.val, u.val.compression, env)} :
        \E js \in {JSONparse(bytesToString(dz.val))} :
            IF Len(b) < 4 \/ ~u.ok \/ ~validateVersion(u.val)
            THEN StageOf(out.err) = 2
            ELSE IF Len(b) < off + 12 THEN StageOf(out.err) = 3
            ELSE IF ~dec.ok THEN StageOf(out.err) = 4
            ELSE IF ~dz.ok THEN StageOf(out.err) = 5
            ELSE IF ~js.ok THEN StageOf(out.err) = 6
            ELSE IF decodeExpired(u.val, out.now) THEN StageOf(out.err) = 7
            ELSE out.ok /\ StageOf(out.err) = 0 /\ out.data = js.val

\* A token that has expired has been decoded under a wrong secret and the
\* decryption error came back.
C25_Witness ==
    /\ out.op = "decode" /\ out.token = tok /\ src.kind = "encoded" /\ src.flip = << >>
    /\ out.secret = KeyB /\ src.secret = KeyA
    /\ decodeExpired(Stored, out.now)
    /\ ~out.ok /\ StageOf(out.err) = 4

\* The indices of 0..total-1 that no chunk of the list carries.
AbsentIndices(picks) ==
    {i \in 0..(MetaOfPicks(picks)[1].total - 1) :
        \A k \in 1..Len(picks) : MetaOfPicks(picks)[k].index # i}

\* C26, as stated: decodeStream reports the first check that fails in the
\* order empty input, a chunk that does not decode, differing chunk ids,
\* count other than total (with the expected and the actual count), indices
\* other than 0..total-1 (naming the smallest index of 0..total-1 that is
\* absent), and returns the data otherwise.  The chunks are those encodeStream
\* returned.
C26_CheckOrder ==
    (out.op = "decodeStream") =>
        \E m \in {MetaOfPicks(out.picks)} :
            IF out.picks = << >> THEN ~out.ok /\ out.err = "No chunks provided"
            ELSE IF \E k \in 1..Len(out.picks) :
                       streams[out.picks[k][1]].secret # out.secret
            THEN /\ ~out.ok
                 /\ out.err = "Decryption failed: Decryption failed: invalid key or corrupted data"
            ELSE IF \E k \in 1..Len(m) : m[k].chunkId # m[1].chunkId
            THEN /\ ~out.ok
                 /\ out.err = "Chunk ID mismatch: chunks are from different streams"
            ELSE IF Len(m) # m[1].total
            THEN /\ ~out.ok /\ out.err = "Incomplete chunks"
                 /\ out.expected = m[1].total /\ out.got = Len(m)
            ELSE IF AbsentIndices(out.picks) # {}
            THEN /\ ~out.ok /\ out.err = "Missing chunk at index"
                 /\ out.at \in AbsentIndices(out.picks)
                 /\ \A i \in AbsentIndices(out.picks) : out.at <= i
            ELSE out.ok /\ out.data = streams[out.picks[1][1]].data

\* Chunks 0, 0 and 1 of a three-chunk stream were passed: chunk 2 is absent
\* and the message names index 1.
C26_Witness ==
    /\ out.op = "decodeStream" /\ out.secret = KeyA
    /\ out.picks = << << 1, 1 >>, << 1, 1 >>, << 1, 2 >> >>
    /\ Len(streams[1].chunks) = 3
    /\ AbsentIndices(out.picks) = {2}
    /\ ~out.ok /\ out.err = "Missing chunk at index" /\ out.at = 1

\* C27, as stated: for a token that carries a timestamp and a ttl, at every
\* clock value decode under the right secret fails as expired exactly when
\* isExpired returns true at that clock value.
C27_ExpiryAgreement ==
    /\ (Decoded /\ out.secret = src.secret
          /\ Stored.timestamp # Undefined /\ Stored.ttl # Undefined)
          => ((~out.ok /\ out.err = "Token has expired")
                <=> isExpired(out.token, out.now).val)
    /\ (out.op = "isExpired" /\ out.token = tok /\ src.kind = "encoded"
          /\ Stored.timestamp # Undefined /\ Stored.ttl # Undefined)
          => (out.expired
                <=> decode(out.token, src.secret, out.now, sealed, env).err
                        = "Token has expired")

\* At the instant timestamp + ttl * 1000 isExpired has returned true for a
\* token that decode turns into its data at that instant.
C27_Witness ==
    /\ out.op = "isExpired" /\ out.token = tok /\ src.kind = "encoded"
    /\ Stored.timestamp # Undefined /\ Stored.ttl = U32(1)
    /\ out.now = (src.t0 \div 1000) * 1000 + 1000
    /\ out.ok /\ out.expired
    /\ decode(out.token, src.secret, out.now, sealed, env).ok

\* C28, as stated: a token with a timestamp and a ttl that rotateKey, called
\* without options, has turned into a new token: under the new secret the
\* new token decodes exactly as long as the old token had not expired.
C28_RotationKeepsExpiry ==
    (Decoded /\ src.kind = "rotated" /\ out.secret = src.secret
       /\ src.options = NoOptions
       /\ src.meta0.timestamp # Undefined /\ src.meta0.ttl # Undefined)
        => /\ decodeExpired(src.meta0, out.now) => (~out.ok /\ out.err = "Token has expired")
           /\ ~decodeExpired(src.meta0, out.now) => (out.ok /\ out.data = src.data)

\* A token with a ttl of one second was rotated before it expired, and the
\* new token, which carries neither timestamp nor ttl, has been decoded to
\* the data after the old token's expiry.
C28_Witness ==
    /\ Decoded /\ src.kind = "rotated" /\ out.secret = src.secret
    /\ src.options = NoOptions
    /\ src.meta0.ttl = U32(1) /\ src.meta0.timestamp # Undefined
    /\ decodeExpired(src.meta0, out.now)
    /\ Stored.timestamp = Undefined /\ Stored.ttl = Undefined
    /\ out.ok /\ out.data = src.data

\* The chunks of a list as encodeStream returned them.
AsReturned(picks) ==
    [k \in 1..Len(picks) |-> streams[picks[k][1]].chunks[picks[k][2]]] \o << >>

\* C29: the outcome of decodeStream is the one it has for the chunks as
\* encodeStream returned them, whatever was written into the metadata field
\* of a chunk whose token was left alone: the same data or the same failure.
C29_MetadataFieldIgnored ==
    (out.op = "decodeStream") =>
        \E r \in {decodeStream(AsReturned(out.picks), out.secret, out.now, sealed, env)} :
            /\ out.ok = r.ok /\ out.err = r.err /\ out.data = r.val
            /\ out.expected = r.expected /\ out.got = r.got /\ out.at = r.at

\* The two chunks of a stream, the first with index 1, total 3 and chunk id
\* "x" written into its metadata field, have been put together to the data.
C29_Witness ==
    /\ out.op = "decodeStream" /\ out.secret = KeyA
    /\ Len(out.picks) = 2
    /\ Len(out.picks[1]) = 3 /\ out.picks[1][1] = 1 /\ out.picks[1][2] = 1
    /\ out.picks[1][3].metadata = [index |-> 1, total |-> 3, chunkId |-> << 120 >>]
    /\ out.picks[1][3].token = streams[1].chunks[1].token
    /\ out.picks[2] = << 1, 2 >>
    /\ out.ok /\ out.data = streams[1].data

\* C30: an encodeStream call comes to its end: while it is in flight the
\* rounds its loop has still to go are finitely many, and when it has returned
\* chunks, decodeStream under the same secret puts them together to the data.
C30_StreamTerminates ==
    \A n \in 1..Len(calls) :
        (calls[n].kind = "encodeStream") =>
            /\ ~calls[n].done => ~calls[n].numChunks.inf
            /\ (calls[n].done /\ calls[n].ok) =>
                   \E r \in {decodeStream(calls[n].out, calls[n].secret, clock,
                                          sealed, env)} :
                       r.ok /\ r.val = calls[n].data

\* An encodeStream call with chunk size 0 has pushed more chunks than the
\* text has characters, every one of them empty, and goes on.
C30_Witness ==
    \E n \in 1..Len(calls) :
        /\ calls[n].kind = "encodeStream" /\ calls[n].chunkSize = 0
        /\ ~calls[n].done
        /\ Len(calls[n].acc) > Len(calls[n].json)
        /\ below(calls[n].i, calls[n].numChunks)

\* What a settled call came to is what the function comes to when nothing
\* else runs, the random values left aside: the same failure or, of a
\* fulfilled call, the same data or tokens that hold the same data.
AsAlone(c) ==
    CASE c.kind = "encode" ->
           \E a \in {encode(c.data, c.secret, c.options, clock, 0, env)} :
               /\ c.ok = a.ok /\ c.err = a.err
               /\ c.ok => /\ Len(c.out) = Len(a.val)
                          /\ extractMetadata(c.out) = extractMetadata(a.val)
                          /\ decode(c.out, c.secret, clock, sealed, env) = Ok(c.data)
      [] c.kind = "decode" ->
           \E a \in {decode(c.token, c.secret, clock, sealed, env)} :
               c.ok = a.ok /\ c.err = a.err /\ c.val = a.val
      [] c.kind = "rotateKey" ->
           \E a \in {rotateKey(c.token, c.secret, c.next, c.options, clock, 0,
                               sealed, env)} :
               /\ c.ok = a.ok /\ c.err = a.err
               /\ c.ok => /\ Len(c.out) = Len(a.val)
                          /\ decode(c.out, c.next, clock, sealed, env)
                                 = decode(c.token, c.secret, clock, sealed, env)
      [] c.kind = "rotateKeys" ->
           \E a \in {rotateKeys(c.list, c.secret, c.next, c.options, clock, 0,
                                sealed, env)} :
               /\ c.ok = (a.errs = {})
               /\ ~c.ok => c.err \in a.errs
               /\ c.ok => /\ Len(c.out) = Len(c.list)
                          /\ \A m \in 1..Len(c.list) :
                                 decode(c.out[m], c.next, clock, sealed, env)
                                     = decode(c.list[m], c.secret, clock, sealed, env)
      [] c.kind = "encodeStream" ->
           \E a \in {encodeStream(c.data, c.secret, c.options, c.chunkSize, clock, 0,
                                  env)} :
               /\ c.ok = a.ok /\ c.err = a.err
               /\ c.ok => /\ Len(c.out) = Len(a.val)
                          /\ \A m \in 1..Len(c.out) :
                                 /\ c.out[m].metadata.index = a.val[m].metadata.index
                                 /\ c.out[m].metadata.total = a.val[m].metadata.total
                                 /\ Len(c.out[m].token) = Len(a.val[m].token)
                          /\ \E r \in {decodeStream(c.out, c.secret, clock, sealed, env)} :
                                 r.ok /\ r.val = c.data
      [] c.kind = "decodeStream" ->
           \E a \in {decodeStream(c.list, c.secret, clock, sealed, env)} :
               /\ c.ok = a.ok /\ c.err = a.err /\ c.val = a.val
               /\ c.expected = a.expected /\ c.got = a.got /\ c.at = a.at

\* C22: whatever calls run side by side and in whatever order they are
\* resumed at their awaits, each call that is settled has come to what it
\* comes to when it runs alone.
C22_NoInterference ==
    \A n \in 1..Len(calls) : calls[n].done => AsAlone(calls[n])

\* A rotateKeys call of two tokens and an encodeStream call of two chunks ran
\* side by side and are fulfilled: the five random values of the two calls
\* were drawn last, the first rotation drew the first of them, and the second
\* rotation did not draw the second, as it does when rotateKeys runs alone.
C22_Witness ==
    /\ Len(calls) = 2
    /\ calls[1].kind = "rotateKeys" /\ Len(calls[1].list) = 2
    /\ calls[2].kind = "encodeStream"
    /\ calls[1].done /\ calls[1].ok /\ calls[2].done /\ calls[2].ok
    /\ Len(calls[2].out) = 2
    /\ \E a \in {rotateKeys(calls[1].list, KeyA, KeyB, NoOptions, clock, rng - 5,
                            sealed, env)} :
           a.val[1] = calls[1].out[1] /\ a.val[2] # calls[1].out[2]

====
